---- MODULE Spec2Model ----
(***************************************************************************)
(* A model of four parts of Mixer:                                         *)
(*   - the filesystem config store (package store, fsStore2): the poller   *)
(*     checkAndUpdate, its snapshot and its watch channel;                 *)
(*   - the gRPC API server (package api, grpcServer): Check with its       *)
(*     quota loop, and Report;                                             *)
(*   - the expression evaluator (package il/evaluator): its program cache  *)
(*     and ChangeVocabulary;                                               *)
(*   - the generated ProcessReport of a template, as crd_test.go drives    *)
(*     it.                                                                 *)
(* The parts share no state.  StoreSpec runs the store, SubSpec the store  *)
(* with a subscriber that calls Get or List between receives, CheckSpec    *)
(* one Check request, ConcSpec two concurrent Check requests, ReportSpec   *)
(* one Report request, BatchSpec a Report whose blocks carry attribute     *)
(* deltas, ApiSpec one request of either method; RefSpec is a Check whose  *)
(* log keeps the attributes looked up, MergeSpec a Check behind given      *)
(* check handlers; IlSpec runs the evaluator and TmplSpec ProcessReport.   *)
(* Each leaves the other parts' variables untouched.                       *)
(***************************************************************************)
EXTENDS Integers, Sequences, FiniteSets, TLC

VARIABLES
    \* ---- config store (fsStore2) ----
    fs,        \* the documents under root, in walk order (file by file, chunk by chunk)
    kinds,     \* fsStore2.kinds
    data,      \* fsStore2.data: the snapshot, Key -> resource
    watch,     \* fsStore2.watchCtx: "none" (nil), "live", "cancelled" (Err() != nil)
    spc,       \* the poller: "new" (before Init), "idle", "sending", "stopped"
    evs,       \* checkAndUpdate's evs not yet sent (s.mu and watchMutex are held)
    \* history of the current (or last) poll
    pollPrev,  \* s.data when the poll started
    pollRead,  \* what readFiles returned
    pollLive,  \* the watch was live when the poll looked and has not been cancelled since
    sent,      \* the events the subscriber received from this poll, in order
    sub,       \* the subscriber: "recv" (at the channel), "lock" (in Get or List, at s.mu.RLock)
    \* ---- gRPC server ----
    srv,       \* the server as constructed: [dispatcher, denier, env]
    req,       \* per request: the CheckRequest / ReportRequest
    pc,        \* per request: where its handler is
    loc,       \* per request: the handler's local variables
    resp,      \* per request: the response being built
    ret,       \* per request: what the handler returned
    calls,     \* the calls the dispatchers received, in order
    \* ---- expression evaluator (IL) ----
    il,        \* the evaluator: [finder, id, cache, last]
    \* ---- template processing ----
    tmpl       \* one ProcessReport call: [insts, hdlr, procCallInput, ret]

storeVars == <<fs, kinds, data, watch, spc, evs, pollPrev, pollRead, pollLive, sent, sub>>
apiVars == <<srv, req, pc, loc, resp, ret, calls>>
ilVars == <<il>>
tmplVars == <<tmpl>>
vars == <<fs, kinds, data, watch, spc, evs, pollPrev, pollRead, pollLive, sent, sub,
          srv, req, pc, loc, resp, ret, calls, il, tmpl>>

\* no evaluator has been constructed
IlIdle == il = <<>>

\* no template is processing
TmplIdle == tmpl = <<>>

(***************************************************************************)
(* Bounds                                                                  *)
(***************************************************************************)
\* the most documents the source holds
MaxDocs == 2

\* the most attribute blocks of a ReportRequest
MaxBlocks == 2

\* the most handlers of one kind (check, report) configured in a dispatcher
MaxHandlers == 2

(***************************************************************************)
(* Small helpers                                                           *)
(***************************************************************************)
Range(s) == {s[i] : i \in DOMAIN s}

\* the sequences that list every element of the finite set S exactly once
Orderings(S) ==
    {s \in [1..Cardinality(S) -> S] : \A i, j \in 1..Cardinality(S) : s[i] = s[j] => i = j}

Restrict(f, D) == [x \in D |-> f[x]]

RemoveAt(s, i) == SubSeq(s, 1, i - 1) \o SubSeq(s, i + 1, Len(s))

(***************************************************************************)
(* Config store: documents, parsing, reading                               *)
(***************************************************************************)
\* A chunk of a file: the bytes between two "\n---\n" separators.  yaml says
\* whether yaml.Unmarshal accepts the bytes; pad stands for bytes that do not
\* change what is parsed (white space, comments).
Chunk(y, k, ns, n, s, p) ==
    [yaml |-> y, Kind |-> k, Namespace |-> ns, Name |-> n, Spec |-> s, pad |-> p]

NoSpec == 0

DocSet ==
    { Chunk("ok", "rule", "ns", "a", 1, 0),
      Chunk("ok", "rule", "ns", "a", 2, 0),
      Chunk("ok", "rule", "ns", "b", 1, 0),
      Chunk("bad", "rule", "ns", "a", 1, 0),     \* not YAML
      Chunk("ok", "", "", "", NoSpec, 1),        \* white space or comments only
      Chunk("ok", "rule", "ns", "", 1, 0),       \* no metadata.name
      Chunk("ok", "rule", "", "a", 1, 0),        \* no metadata.namespace
      Chunk("ok", "", "ns", "a", 1, 0),          \* no kind
      Chunk("ok", "other", "ns", "a", 1, 0) }    \* a kind Init was not given

\* the kinds passed to Init
KindsArg == {"rule"}

MkKey(k, ns, n) == [Kind |-> k, Namespace |-> ns, Name |-> n]

\* resource.Key
Key(r) == MkKey(r.Kind, r.Namespace, r.Name)

\* sha1.Sum(chunk): a function of all the bytes of the chunk, taken to be
\* collision free
sha1Sum(c) == <<c.yaml, c.Kind, c.Namespace, c.Name, c.Spec, c.pad>>

\* empty(r): the parsed resource is the zero resource
empty(c) == c.Kind = "" /\ c.Namespace = "" /\ c.Name = "" /\ c.Spec = NoSpec

\* A pointer is a sequence: <<>> is nil, <<v>> points to v.
Nil == <<>>
Ptr(v) == <<v>>
Deref(p) == p[1]

\* parseChunk: [r, err], r a pointer to the resource
parseChunk(c) ==
    IF c.yaml # "ok" THEN [r |-> Nil, err |-> TRUE]
    ELSE IF empty(c) THEN [r |-> Nil, err |-> FALSE]
    ELSE IF c.Kind = "" \/ c.Namespace = "" \/ c.Name = "" THEN [r |-> Nil, err |-> TRUE]
    ELSE [r |-> Ptr([Kind |-> c.Kind, Namespace |-> c.Namespace, Name |-> c.Name,
                     Spec |-> c.Spec, sha |-> sha1Sum(c)]),
          err |-> FALSE]

\* a parseFile that gives the rest of the file up at the first chunk that
\* fails or is empty
RECURSIVE parseFileStopsAtFailure(_)
parseFileStopsAtFailure(chunks) ==
    IF chunks = <<>> THEN <<>>
    ELSE LET p == parseChunk(Head(chunks))
         IN  IF p.err \/ p.r = Nil THEN <<>>
             ELSE <<Deref(p.r)>> \o parseFileStopsAtFailure(Tail(chunks))

\* parseFile: the resources of the chunks, in order; chunks that fail or are
\* empty are left out
RECURSIVE parseFile(_)
parseFile(chunks) ==
    IF chunks = <<>> THEN <<>>
    ELSE LET p == parseChunk(Head(chunks))
         IN  IF p.err \/ p.r = Nil THEN parseFile(Tail(chunks))
             ELSE <<Deref(p.r)>> \o parseFile(Tail(chunks))

\* readFiles' loop over the parsed resources: result[r.Key()] = r unless the
\* kind is not one of s.kinds
RECURSIVE collect(_, _, _)
collect(rs, ks, result) ==
    IF rs = <<>> THEN result
    ELSE LET r == Head(rs)
             k == Key(r)
         IN  IF k.Kind \notin ks THEN collect(Tail(rs), ks, result)
             ELSE collect(Tail(rs), ks,
                          [x \in DOMAIN result \cup {k} |-> IF x = k THEN r ELSE result[x]])

EmptyMap == [x \in {} |-> 0]

\* readFiles that keeps the resources of every kind
readFilesAllKinds(src, ks) == collect(parseFile(src), {c.Kind : c \in DocSet}, EmptyMap)

readFiles(src, ks) == collect(parseFile(src), ks, EmptyMap)

(***************************************************************************)
(* Config store: checkAndUpdate                                            *)
(***************************************************************************)
\* updatedKeys that takes every key read as updated
updatedKeysAll(old, new) == DOMAIN new

\* updatedKeys without the comparison of the hashes
updatedKeysNewOnly(old, new) == {k \in DOMAIN new : k \notin DOMAIN old}

\* the keys appended to updated: not in s.data, or there with another sha
updatedKeys(old, new) ==
    {k \in DOMAIN new : k \notin DOMAIN old \/ new[k].sha # old[k].sha}

\* removed: every key of s.data, less those found in newData
removedKeys(old, new) == DOMAIN old \ DOMAIN new

BackEndResource(r) ==
    [Metadata |-> [Namespace |-> r.Namespace, Name |-> r.Name], Spec |-> r.Spec]

UpdateEvent(k, r) == [Key |-> k, Type |-> "Update", Value |-> Ptr(BackEndResource(r))]
DeleteEvent(k) == [Key |-> k, Type |-> "Delete", Value |-> Nil]

\* ErrNotFound
ErrNotFound == "not found"

\* Get: [res, err] for key over the snapshot d
Get(d, key) ==
    IF key \notin DOMAIN d THEN [res |-> Nil, err |-> Ptr(ErrNotFound)]
    ELSE [res |-> Ptr(BackEndResource(d[key])), err |-> Nil]

\* List: the whole snapshot d
List(d) == [k \in DOMAIN d |-> BackEndResource(d[k])]

\* event lists with the deletes ahead of the updates
eventListsDeletesFirst(old, new) ==
    {[i \in 1..(Len(u) + Len(d)) |->
         IF i <= Len(d) THEN DeleteEvent(d[i]) ELSE UpdateEvent(u[i - Len(d)], new[u[i - Len(d)]])]
       : u \in Orderings(updatedKeys(old, new)), d \in Orderings(removedKeys(old, new))}

\* the evs checkAndUpdate can build: the updated keys in the order the range
\* over newData met them, then the removed keys in the order of a range over
\* a map; both orders are unspecified
eventLists(old, new) ==
    {[i \in 1..(Len(u) + Len(d)) |->
         IF i <= Len(u) THEN UpdateEvent(u[i], new[u[i]]) ELSE DeleteEvent(d[i - Len(u)])]
       : u \in Orderings(updatedKeys(old, new)), d \in Orderings(removedKeys(old, new))}

\* the watch can take events: s.watchCtx != nil && s.watchCtx.Err() == nil
watchLive(w) == w = "live"

\* a checkAndUpdate whose snapshot never forgets a resource
checkAndUpdateMerges(ks) ==
    LET newData == readFiles(fs, ks)
        updated == updatedKeys(data, newData)
        removed == removedKeys(data, newData)
    IN  /\ pollPrev' = data
        /\ pollRead' = newData
        /\ sent' = <<>>
        /\ IF updated = {} /\ removed = {}
             THEN /\ data' = data
                  /\ evs' = <<>>
                  /\ spc' = "idle"
                  /\ pollLive' = watchLive(watch)
             ELSE /\ data' = [k \in DOMAIN data \cup DOMAIN newData |->
                                IF k \in DOMAIN newData THEN newData[k] ELSE data[k]]
                  /\ IF ~watchLive(watch)
                       THEN /\ evs' = <<>>
                            /\ spc' = "idle"
                            /\ pollLive' = FALSE
                       ELSE /\ evs' \in eventLists(data, newData)
                            /\ spc' = "sending"
                            /\ pollLive' = TRUE

\* a checkAndUpdate that keeps the old snapshot when no watch can take the
\* events, for a later poll to find the changes again
checkAndUpdateKeepsUndelivered(ks) ==
    LET newData == readFiles(fs, ks)
        updated == updatedKeys(data, newData)
        removed == removedKeys(data, newData)
    IN  /\ pollPrev' = data
        /\ pollRead' = newData
        /\ sent' = <<>>
        /\ IF (updated = {} /\ removed = {}) \/ ~watchLive(watch)
             THEN /\ data' = data
                  /\ evs' = <<>>
                  /\ spc' = "idle"
                  /\ pollLive' = (watchLive(watch) /\ updated = {} /\ removed = {})
             ELSE /\ data' = newData
                  /\ evs' \in eventLists(data, newData)
                  /\ spc' = "sending"
                  /\ pollLive' = TRUE

\* checkAndUpdate up to its send loop; ks is s.kinds when it runs
checkAndUpdate(ks) ==
    LET newData == readFiles(fs, ks)
        updated == updatedKeys(data, newData)
        removed == removedKeys(data, newData)
    IN  /\ pollPrev' = data
        /\ pollRead' = newData
        /\ sent' = <<>>
        /\ IF updated = {} /\ removed = {}
             THEN /\ data' = data
                  /\ evs' = <<>>
                  /\ spc' = "idle"
                  /\ pollLive' = watchLive(watch)
             ELSE /\ data' = newData
                  /\ IF ~watchLive(watch)
                       THEN /\ evs' = <<>>
                            /\ spc' = "idle"
                            /\ pollLive' = FALSE
                       ELSE /\ evs' \in eventLists(data, newData)
                            /\ spc' = "sending"
                            /\ pollLive' = TRUE

\* Init: records the kinds and runs the first checkAndUpdate itself
StoreInitCall ==
    /\ spc = "new"
    /\ kinds' = KindsArg
    /\ checkAndUpdate(KindsArg)
    /\ UNCHANGED <<fs, watch>>
    /\ UNCHANGED <<sub, apiVars, ilVars, tmplVars>>

\* the ticker fires: case <-tick.C
Tick ==
    /\ spc = "idle"
    /\ checkAndUpdate(kinds)
    /\ UNCHANGED <<fs, kinds, watch>>
    /\ UNCHANGED <<sub, apiVars, ilVars, tmplVars>>

\* the send loop, one event: case s.watchCh <- ev, the subscriber receives;
\* the channel is unbuffered, the subscriber has to be at the receive
SendEvent ==
    /\ spc = "sending"
    /\ evs # <<>>
    /\ sub = "recv"
    /\ sent' = Append(sent, Head(evs))
    /\ evs' = Tail(evs)
    /\ UNCHANGED <<fs, kinds, data, watch, spc, pollPrev, pollRead, pollLive>>
    /\ UNCHANGED <<sub, apiVars, ilVars, tmplVars>>

\* a send loop that gives an event up whether or not the watch is cancelled
DropEventWithoutCancel ==
    /\ spc = "sending"
    /\ evs # <<>>
    /\ evs' = Tail(evs)
    /\ UNCHANGED <<fs, kinds, data, watch, spc, pollPrev, pollRead, pollLive, sent>>
    /\ UNCHANGED <<sub, apiVars, ilVars, tmplVars>>

\* the send loop, one event: case <-s.watchCtx.Done(), the event is dropped
DropEvent ==
    /\ spc = "sending"
    /\ evs # <<>>
    /\ watch = "cancelled"
    /\ evs' = Tail(evs)
    /\ UNCHANGED <<fs, kinds, data, watch, spc, pollPrev, pollRead, pollLive, sent>>
    /\ UNCHANGED <<sub, apiVars, ilVars, tmplVars>>

\* the send loop is over: checkAndUpdate returns and unlocks
FinishPoll ==
    /\ spc = "sending"
    /\ evs = <<>>
    /\ spc' = "idle"
    /\ UNCHANGED <<fs, kinds, data, watch, evs, pollPrev, pollRead, pollLive, sent>>
    /\ UNCHANGED <<sub, apiVars, ilVars, tmplVars>>

\* the poller's loop: case <-ctx.Done()
StopPoller ==
    /\ spc = "idle"
    /\ spc' = "stopped"
    /\ UNCHANGED <<fs, kinds, data, watch, evs, pollPrev, pollRead, pollLive, sent>>
    /\ UNCHANGED <<sub, apiVars, ilVars, tmplVars>>

\* Watch: takes watchMutex, which checkAndUpdate holds while it sends
Watch ==
    /\ spc # "sending"
    /\ watch # "live"
    /\ watch' = "live"
    /\ UNCHANGED <<fs, kinds, data, spc, evs, pollPrev, pollRead, pollLive, sent>>
    /\ UNCHANGED <<sub, apiVars, ilVars, tmplVars>>

\* the context given to Watch is cancelled
CancelWatch ==
    /\ watch = "live"
    /\ watch' = "cancelled"
    /\ pollLive' = IF spc = "sending" THEN FALSE ELSE pollLive
    /\ UNCHANGED <<fs, kinds, data, spc, evs, pollPrev, pollRead, sent>>
    /\ UNCHANGED <<sub, apiVars, ilVars, tmplVars>>

\* The source changes: a document is rewritten, added or removed.  Only
\* readFiles looks at the source, so a change made while the poller sends is
\* taken when the sending is over, and none is taken once the poller stopped.
sourceWatched == spc \in {"new", "idle"}

WriteDoc ==
    /\ sourceWatched
    /\ \E i \in 1..Len(fs), d \in DocSet : d # fs[i] /\ fs' = [fs EXCEPT ![i] = d]
    /\ UNCHANGED <<kinds, data, watch, spc, evs, pollPrev, pollRead, pollLive, sent>>
    /\ UNCHANGED <<sub, apiVars, ilVars, tmplVars>>

AddDoc ==
    /\ sourceWatched
    /\ Len(fs) < MaxDocs
    /\ \E d \in DocSet : fs' = Append(fs, d)
    /\ UNCHANGED <<kinds, data, watch, spc, evs, pollPrev, pollRead, pollLive, sent>>
    /\ UNCHANGED <<sub, apiVars, ilVars, tmplVars>>

RemoveDoc ==
    /\ sourceWatched
    /\ \E i \in 1..Len(fs) : fs' = RemoveAt(fs, i)
    /\ UNCHANGED <<kinds, data, watch, spc, evs, pollPrev, pollRead, pollLive, sent>>
    /\ UNCHANGED <<sub, apiVars, ilVars, tmplVars>>

\* the server is not running
ApiIdle ==
    /\ srv = "none"
    /\ req = <<>>
    /\ pc = <<>>
    /\ loc = <<>>
    /\ resp = <<>>
    /\ ret = <<>>
    /\ calls = <<>>

\* NewFsStore2, over any source of at most MaxDocs documents
StoreInit ==
    /\ fs \in UNION {[1..n -> DocSet] : n \in 0..MaxDocs}
    /\ kinds = {}
    /\ data = EmptyMap
    /\ watch = "none"
    /\ spc = "new"
    /\ evs = <<>>
    /\ pollPrev = EmptyMap
    /\ pollRead = EmptyMap
    /\ pollLive = FALSE
    /\ sent = <<>>
    /\ sub = "recv"
    /\ ApiIdle
    /\ IlIdle
    /\ TmplIdle

StoreNext ==
    \/ StoreInitCall
    \/ Tick
    \/ SendEvent
    \/ DropEvent
    \/ FinishPoll
    \/ StopPoller
    \/ Watch
    \/ CancelWatch
    \/ WriteDoc
    \/ AddDoc
    \/ RemoveDoc

StoreSpec == StoreInit /\ [][StoreNext]_vars

\* The subscriber calls Get or List: both take s.mu.RLock, which
\* checkAndUpdate holds (s.mu.Lock, deferred unlock) from its comparison to
\* the end of its send loop.
SubCall ==
    /\ watch # "none"
    /\ sub = "recv"
    /\ sub' = "lock"
    /\ UNCHANGED <<fs, kinds, data, watch, spc, evs, pollPrev, pollRead, pollLive, sent>>
    /\ UNCHANGED <<apiVars, ilVars, tmplVars>>

\* s.mu is free: Get or List reads s.data and returns
SubAnswer ==
    /\ sub = "lock"
    /\ spc # "sending"
    /\ sub' = "recv"
    /\ UNCHANGED <<fs, kinds, data, watch, spc, evs, pollPrev, pollRead, pollLive, sent>>
    /\ UNCHANGED <<apiVars, ilVars, tmplVars>>

SubNext ==
    \/ StoreNext
    \/ SubCall
    \/ SubAnswer

\* the store with a subscriber that reads the store between receives
SubSpec == StoreInit /\ [][SubNext]_vars

(***************************************************************************)
(* gRPC server: values                                                     *)
(***************************************************************************)
\* the requests in flight at once
Reqs == {1, 2}

\* rpc.Code
OK == 0
PERMISSION_DENIED == 7
RESOURCE_EXHAUSTED == 8
FAILED_PRECONDITION == 9
INTERNAL == 13

\* rpc.Status
St(code, msg) == [Code |-> code, Message |-> msg]

\* status.OK
StatusOK == St(OK, "")

\* status.IsOK
IsOK(s) == s.Code = OK

\* status.WithError: the error as an INTERNAL status
WithError(err) == St(INTERNAL, err)

\* a makeGRPCError that answers UNKNOWN (2) whatever the status
makeGRPCErrorUnknown(s) == [Code |-> 2, Message |-> s.Message]

\* makeGRPCError: the gRPC error with the status's code and message
makeGRPCError(s) == [Code |-> s.Code, Message |-> s.Message]

\* the statuses a dispatcher hands back
StatusSet == {StatusOK, St(FAILED_PRECONDITION, "denied"), St(INTERNAL, "failed")}

\* the errors a dispatcher hands back (the error's text)
ErrSet == {"handler error"}

\* defaultValidDuration (seconds), defaultValidUseCount
defaultValidDuration == 10
defaultValidUseCount == 200

\* checkOk
checkOk == [Status |-> StatusOK, ValidDuration |-> defaultValidDuration,
            ValidUseCount |-> defaultValidUseCount]

\* the values Check first writes into the response
initialValidDuration == 5
initialValidUseCount == 10000

\* adapter.CheckResult
CheckResult(s, d, c) == [Status |-> s, ValidDuration |-> d, ValidUseCount |-> c]

\* the denier's answer to every check: its configured status, valid 1000 s
\* and 1000 uses
denierValidDuration == 1000
denierValidUseCount == 1000

\* a denier that answers with the default status whatever its configuration
HandleListEntryDefaultStatus(status) ==
    CheckResult(St(FAILED_PRECONDITION, ""), denierValidDuration, denierValidUseCount)

\* handler.HandleListEntry (and HandleCheckNothing) of the denier
HandleListEntry(status) == CheckResult(status, denierValidDuration, denierValidUseCount)

\* the status codes a denier is configured with: the default of GetInfo, and
\* the one of the test configuration
DenierCodes == {FAILED_PRECONDITION, PERMISSION_DENIED}

\* newHandler of the denier: the handler's status is the configured one
denierStatus(code) == St(code, "")

\* the attributes a dispatcher may look up in the request bag
Attrs == {"source.ip"}

\* the names of the quotas, the deduplication ids and the quota parameters
\* of the requests
QuotaNames == {"q", "xq"}
DedupIds == {"d", "dx"}
QuotaParams == {[Amount |-> 1, BestEffort |-> FALSE], [Amount |-> 2, BestEffort |-> TRUE]}

\* CheckRequest.Quotas: any map from some of the names to parameters
QuotaMaps == UNION {[N -> QuotaParams] : N \in SUBSET QuotaNames}

CheckRequests == [DeduplicationId : DedupIds, Quotas : QuotaMaps]

\* the arguments without the request's deduplication id
QuotaMethodArgsNoDedup(q, name) ==
    [Quota |-> name,
     Amount |-> q.Quotas[name].Amount,
     DeduplicationID |-> name,
     BestEffort |-> q.Quotas[name].BestEffort]

\* aspect.QuotaMethodArgs as Check builds it for quota name of request q
QuotaMethodArgs(q, name) ==
    [Quota |-> name,
     Amount |-> q.Quotas[name].Amount,
     DeduplicationID |-> q.DeduplicationId \o name,
     BestEffort |-> q.Quotas[name].BestEffort]

\* what the new dispatcher's Quota hands back: (qmr, err)
QuotaResults2 == {[Amount |-> a, ValidDuration |-> 60] : a \in {0, 1}}
QuotaOutcomes2 ==
    [qmr : {Nil} \cup {Ptr(x) : x \in QuotaResults2}, err : {Nil} \cup {Ptr(e) : e \in ErrSet}]

\* what the legacy dispatcher's Quota hands back: (qmr, out)
QuotaMethodResps == {[Amount |-> a, Expiration |-> 30] : a \in {0, 1}}
QuotaStatusSet == {StatusOK, St(RESOURCE_EXHAUSTED, "exhausted"), St(INTERNAL, "failed")}
QuotaOutcomesOld ==
    [qmr : {Nil} \cup {Ptr(x) : x \in QuotaMethodResps}, out : QuotaStatusSet]

\* what the new dispatcher's Check hands back: (cr, err)
CheckResults == {CheckResult(s, d[1], d[2]) : s \in StatusSet, d \in {<<1, 1>>, <<1000, 1000>>}}
CheckOutcomes ==
    [cr : {Nil} \cup {Ptr(x) : x \in CheckResults}, err : {Nil} \cup {Ptr(e) : e \in ErrSet}]

\* mixerpb.CheckResponse_QuotaResult
QuotaResult(granted, duration, refs) ==
    [GrantedAmount |-> granted, ValidDuration |-> duration, ReferencedAttributes |-> refs]

\* &mixerpb.CheckResponse{}
ZeroResponse ==
    [Status |-> StatusOK, ValidDuration |-> 0, ValidUseCount |-> 0,
     ReferencedAttributes |-> {}, Quotas |-> EmptyMap]

\* a request slot that is not used
NoRequest == [DeduplicationId |-> "", Quotas |-> EmptyMap]

\* the locals of Check:
\*   out2, out  the status of the new and of the legacy dispatcher's Check
\*   refs       the referenced attributes of requestBag
\*   todo       the quotas the range over req.Quotas has not reached
\*   cur        the quota of the current iteration ("" outside the loop)
\*   bags       Done calls on requestBag, preprocResponseBag, responseBag
\*   acq        the bags acquired (NewProtoBag, GetMutableBag)
\*   late       the bags that were read or written after their Done
ZeroLocals ==
    [out2 |-> StatusOK, out |-> StatusOK, refs |-> {}, todo |-> {}, cur |-> "",
     bags |-> [requestBag |-> 0, preprocResponseBag |-> 0, responseBag |-> 0],
     acq |-> {}, late |-> {}]

NoReturn == [done |-> FALSE, resp |-> FALSE, err |-> Nil]

\* One call of a dispatcher, as the dispatcher saw it: the method, the quota
\* arguments if any, and what it returned: a pointer val (the CheckResult or
\* the quota response), an error err, a status out; used holds the attributes
\* the dispatcher looked up in the request bag during the call.
Call(op, args, val, err, out) ==
    [op |-> op, args |-> args, val |-> val, err |-> err, out |-> out, used |-> {}]

\* the call c as the log of server s keeps it: a server that is traced
\* (s.env = "traced") also keeps the attributes u looked up during the call
Looked(s, c, u) == IF s.env = "traced" THEN [c EXCEPT !.used = u] ELSE c
NoArgs == [Quota |-> "", Amount |-> 0, DeduplicationID |-> "", BestEffort |-> FALSE]

(***************************************************************************)
(* gRPC server: Check                                                      *)
(***************************************************************************)
Put(m, k, v) == [x \in DOMAIN m \cup {k} |-> IF x = k THEN v ELSE m[x]]

Min(a, b) == IF a <= b THEN a ELSE b

\* Dispatcher.Check over the results of the handlers whose rule matched, in
\* rule order: nil when no handler ran, else the first status that is not OK
\* (OK when all are) with the least duration and the least use count
RECURSIVE dispatcherCheck(_)
dispatcherCheck(results) ==
    IF results = <<>> THEN Nil
    ELSE LET h == Head(results)
             rest == dispatcherCheck(Tail(results))
         IN  IF rest = Nil THEN Ptr(h)
             ELSE Ptr(CheckResult(IF IsOK(h.Status) THEN Deref(rest).Status ELSE h.Status,
                                  Min(h.ValidDuration, Deref(rest).ValidDuration),
                                  Min(h.ValidUseCount, Deref(rest).ValidUseCount)))

\* The dispatchers are given to NewGRPCServer; srv.env says what was given:
\* "any", dispatchers that may answer anything, or "passing", dispatchers
\* with no preprocessor and no check configured (Preprocess and the legacy
\* Check answer OK, the new Check answers that no check was performed, none
\* looks an attribute up).  Quota answers anything in both.  Two more say
\* how the server is observed: "traced", any dispatchers, the log keeping
\* the attributes looked up; "handlers", a new dispatcher whose check
\* handlers answer with s.results, in rule order, the rest as in "passing".
quiet(s) == s.env \in {"passing", "handlers"}

preprocessOutcomes(s) == IF quiet(s) THEN {StatusOK} ELSE StatusSet

legacyCheckOutcomes(s) == IF quiet(s) THEN {StatusOK} ELSE StatusSet

lookups(s) == IF quiet(s) THEN {{}} ELSE SUBSET Attrs

\* what s.dispatcher.Check can return on this server: with a denier
\* configured behind a rule that matches every request, the denier's answer
checkOutcomes(s) ==
    IF s.denier # Nil
    THEN {[cr |-> dispatcherCheck(<<HandleListEntry(denierStatus(Deref(s.denier)))>>),
           err |-> Nil]}
    ELSE IF s.env = "passing" THEN {[cr |-> Nil, err |-> Nil]}
    ELSE IF s.env = "handlers" THEN {[cr |-> dispatcherCheck(s.results), err |-> Nil]}
    ELSE CheckOutcomes

\* out2 after Check's dispatch of Check2: the error as a status, overwritten
\* by the result's status when there is a result
check2Status(o) ==
    LET onErr == IF o.err # Nil THEN WithError(Deref(o.err)) ELSE StatusOK
    IN  IF o.cr = Nil THEN onErr ELSE Deref(o.cr).Status

\* a Check that takes the defaults whatever the dispatcher returned
check2ResultAlwaysDefault(o) == checkOk

\* cr after Check's dispatch of Check2
check2Result(o) == IF o.cr = Nil THEN checkOk ELSE Deref(o.cr)

\* a combination that prefers the legacy status
combineStatusLegacyFirst(out2, out) == IF ~IsOK(out) THEN out ELSE out2

\* "if out2 fails, we want to see that error, otherwise use out"
combineStatus(out2, out) == IF ~IsOK(out2) THEN out2 ELSE out

\* the quota loop is entered whatever the precondition status
quotasWantedAnyStatus(final, q) == DOMAIN q.Quotas # {}

\* the quota loop is entered: the precondition is OK and quotas are asked for
quotasWanted(final, q) == IsOK(final) /\ DOMAIN q.Quotas # {}

\* quota() that forgets the dispatcher's error
quotaSwallowsError(o) ==
    IF o.qmr = Nil THEN [qr |-> Nil, err |-> Nil]
    ELSE [qr |-> Ptr(QuotaResult(Deref(o.qmr).Amount, Deref(o.qmr).ValidDuration, {})),
          err |-> Nil]

\* quota() that forgets the dispatcher's result
quotaDropsResult(o) == [qr |-> Nil, err |-> o.err]

\* quota: [qr, err] from what the new dispatcher's Quota returned
quota(o) ==
    IF o.err # Nil THEN [qr |-> Nil, err |-> o.err]
    ELSE IF o.qmr = Nil THEN [qr |-> Nil, err |-> Nil]
    ELSE [qr |-> Ptr(QuotaResult(Deref(o.qmr).Amount, Deref(o.qmr).ValidDuration, {})),
          err |-> Nil]

\* quotaOld: qr from what the legacy dispatcher's Quota returned
quotaOld(o) ==
    LET qmr == IF ~IsOK(o.out) /\ o.out.Code = RESOURCE_EXHAUSTED
               THEN Ptr([Amount |-> 0, Expiration |-> defaultValidDuration])
               ELSE o.qmr
    IN  IF qmr = Nil THEN Nil
        ELSE Ptr(QuotaResult(Deref(qmr).Amount, Deref(qmr).Expiration, {}))

\* a made-up result that grants nothing
unlimitedGrantsNothing(qma) == QuotaResult(0, defaultValidDuration, {})

\* the result Check makes up when neither dispatcher has one
unlimited(qma) == QuotaResult(qma.Amount, defaultValidDuration, {})

\* the bags among names that are used although Done was called on them
usedAfterDone(bags, names) == {b \in names : bags[b] > 0}

\* a Check that stores qr for quota name and does not clear the referenced
\* attributes
storeQuotaKeepsRefs(r, name, qr, refs, todo) ==
    /\ resp' = [resp EXCEPT ![r].Quotas =
                   Put(@, name, [qr EXCEPT !.ReferencedAttributes = refs])]
    /\ loc' = [loc EXCEPT ![r].refs = refs, ![r].todo = todo, ![r].cur = ""]
    /\ pc' = [pc EXCEPT ![r] = IF todo = {} THEN "finish" ELSE "quota"]

\* Check stores qr for quota name: the referenced attributes are read into
\* it and cleared, and the loop goes on or ends
storeQuota(r, name, qr, refs, todo) ==
    /\ resp' = [resp EXCEPT ![r].Quotas =
                   Put(@, name, [qr EXCEPT !.ReferencedAttributes = refs])]
    /\ loc' = [loc EXCEPT ![r].refs = {}, ![r].todo = todo, ![r].cur = "",
                          ![r].late = @ \cup usedAfterDone(loc[r].bags,
                                                           {"requestBag", "preprocResponseBag"})]
    /\ pc' = [pc EXCEPT ![r] = IF todo = {} THEN "finish" ELSE "quota"]

\* a Done that does not release
doneBagsForgets(bags, names) == bags

\* Check calls Done on the bags named
doneBags(bags, names) == [b \in DOMAIN bags |-> IF b \in names THEN bags[b] + 1 ELSE bags[b]]

\* Check, up to the answer of Preprocess
CheckPreprocess(r) ==
    /\ pc[r] = "Check"
    /\ \E out \in preprocessOutcomes(srv), used \in lookups(srv) :
         /\ calls' = [calls EXCEPT ![r] =
                         Append(@, Looked(srv, Call("Preprocess", NoArgs, Nil, Nil, out), used))]
         /\ IF ~IsOK(out)
              THEN /\ loc' = [loc EXCEPT ![r].refs = used,
                                         ![r].acq = {"requestBag", "preprocResponseBag"},
                                         ![r].bags = doneBags(@, {"requestBag", "preprocResponseBag"})]
                   /\ ret' = [ret EXCEPT ![r] =
                                 [done |-> TRUE, resp |-> FALSE, err |-> Ptr(makeGRPCError(out))]]
                   /\ pc' = [pc EXCEPT ![r] = "done"]
                   /\ resp' = resp
              ELSE /\ loc' = [loc EXCEPT ![r].refs = used,
                                         ![r].acq = {"requestBag", "preprocResponseBag",
                                                     "responseBag"}]
                   /\ resp' = [resp EXCEPT ![r] =
                                  [ZeroResponse EXCEPT !.ValidDuration = initialValidDuration,
                                                       !.ValidUseCount = initialValidUseCount]]
                   /\ pc' = [pc EXCEPT ![r] = "check2"]
                   /\ ret' = ret
    /\ UNCHANGED <<srv, req>>
    /\ UNCHANGED <<storeVars, ilVars, tmplVars>>

\* Check: the new dispatcher's Check, when there is a new dispatcher
CheckDispatch2(r) ==
    /\ pc[r] = "check2"
    /\ IF srv.dispatcher
         THEN \E o \in checkOutcomes(srv), used \in lookups(srv) :
                /\ calls' = [calls EXCEPT ![r] =
                                Append(@, Looked(srv, Call("Check2", NoArgs, o.cr, o.err, StatusOK), used))]
                /\ loc' = [loc EXCEPT ![r].out2 = check2Status(o), ![r].refs = @ \cup used,
                                      ![r].late = @ \cup usedAfterDone(loc[r].bags,
                                                                       {"preprocResponseBag"})]
                /\ resp' = [resp EXCEPT ![r].ValidDuration = check2Result(o).ValidDuration,
                                        ![r].ValidUseCount = check2Result(o).ValidUseCount]
         ELSE UNCHANGED <<calls, loc, resp>>
    /\ pc' = [pc EXCEPT ![r] = "checkOld"]
    /\ UNCHANGED <<srv, req, ret>>
    /\ UNCHANGED <<storeVars, ilVars, tmplVars>>

\* Check: the legacy dispatcher's Check, and the precondition of the response
CheckDispatchOld(r) ==
    /\ pc[r] = "checkOld"
    /\ \E out \in legacyCheckOutcomes(srv), used \in lookups(srv) :
         LET final == combineStatus(loc[r].out2, out)
             loop == quotasWanted(final, req[r])
         IN  /\ calls' = [calls EXCEPT ![r] =
                             Append(@, Looked(srv, Call("Check", NoArgs, Nil, Nil, out), used))]
             /\ resp' = [resp EXCEPT ![r].Status = final,
                                     ![r].ReferencedAttributes = loc[r].refs \cup used]
             /\ loc' = [loc EXCEPT ![r].out = out,
                                   ![r].refs = {},
                                   ![r].late = @ \cup usedAfterDone(loc[r].bags,
                                                  {"requestBag", "preprocResponseBag", "responseBag"}),
                                   ![r].bags = doneBags(@, {"responseBag"}),
                                   ![r].todo = IF loop THEN DOMAIN req[r].Quotas ELSE {}]
             /\ pc' = [pc EXCEPT ![r] = IF loop THEN "quota" ELSE "finish"]
    /\ UNCHANGED <<srv, req, ret>>
    /\ UNCHANGED <<storeVars, ilVars, tmplVars>>

\* Check's quota loop, one iteration up to the answer of quota()
CheckQuota(r) ==
    /\ pc[r] = "quota"
    /\ \E name \in loc[r].todo, used \in SUBSET Attrs :
         \E o \in IF srv.dispatcher THEN QuotaOutcomes2 ELSE {[qmr |-> Nil, err |-> Nil]} :
           LET qma == QuotaMethodArgs(req[r], name)
               got == quota(o)
               refs == IF srv.dispatcher THEN loc[r].refs \cup used ELSE loc[r].refs
               todo == loc[r].todo \ {name}
           IN  /\ calls' = IF srv.dispatcher
                             THEN [calls EXCEPT ![r] =
                                      Append(@, Looked(srv, Call("Quota2", qma, o.qmr, o.err, StatusOK),
                                                       used))]
                             ELSE calls
               /\ IF got.err # Nil
                    THEN /\ resp' = [resp EXCEPT ![r].Status = WithError(Deref(got.err))]
                         /\ loc' = [loc EXCEPT ![r].refs = {}, ![r].todo = todo,
                                               ![r].late = @ \cup usedAfterDone(loc[r].bags,
                                                              {"requestBag", "preprocResponseBag"})]
                         /\ pc' = [pc EXCEPT ![r] = "finish"]
                    ELSE IF got.qr = Nil
                    THEN /\ resp' = resp
                         /\ loc' = [loc EXCEPT ![r].refs = refs, ![r].todo = todo,
                                               ![r].cur = name,
                                               ![r].late = @ \cup usedAfterDone(loc[r].bags,
                                                              {"preprocResponseBag"})]
                         /\ pc' = [pc EXCEPT ![r] = "quotaOld"]
                    ELSE storeQuota(r, name, Deref(got.qr), refs, todo)
    /\ UNCHANGED <<srv, req, ret>>
    /\ UNCHANGED <<storeVars, ilVars, tmplVars>>

\* Check's quota loop, the rest of an iteration in which quota() had nothing
CheckQuotaOld(r) ==
    /\ pc[r] = "quotaOld"
    /\ \E o \in QuotaOutcomesOld, used \in SUBSET Attrs :
         LET qma == QuotaMethodArgs(req[r], loc[r].cur)
             qr == quotaOld(o)
         IN  /\ calls' = [calls EXCEPT ![r] =
                             Append(@, Looked(srv, Call("Quota", qma, o.qmr, Nil, o.out), used))]
             /\ storeQuota(r, loc[r].cur,
                           IF qr = Nil THEN unlimited(qma) ELSE Deref(qr),
                           loc[r].refs \cup used, loc[r].todo)
    /\ UNCHANGED <<srv, req, ret>>
    /\ UNCHANGED <<storeVars, ilVars, tmplVars>>

\* Check returns the response
CheckReturn(r) ==
    /\ pc[r] = "finish"
    /\ loc' = [loc EXCEPT ![r].bags = doneBags(@, {"requestBag", "preprocResponseBag"})]
    /\ ret' = [ret EXCEPT ![r] = [done |-> TRUE, resp |-> TRUE, err |-> Nil]]
    /\ pc' = [pc EXCEPT ![r] = "done"]
    /\ UNCHANGED <<srv, req, resp, calls>>
    /\ UNCHANGED <<storeVars, ilVars, tmplVars>>

\* the store is not running
StoreIdle ==
    /\ fs = <<>>
    /\ kinds = {}
    /\ data = EmptyMap
    /\ watch = "none"
    /\ spc = "new"
    /\ evs = <<>>
    /\ pollPrev = EmptyMap
    /\ pollRead = EmptyMap
    /\ pollLive = FALSE
    /\ sent = <<>>
    /\ sub = "recv"

\* NewGRPCServer: with or without a new dispatcher; the new dispatcher is any
\* dispatcher, or one configured with a denier behind a rule that matches all
ServerSet ==
    {[dispatcher |-> FALSE, denier |-> Nil, env |-> "any"]}
    \cup {[dispatcher |-> TRUE, denier |-> d, env |-> "any"] :
             d \in {Nil} \cup {Ptr(c) : c \in DenierCodes}}

\* one Check request arrives
CheckInit ==
    /\ srv \in ServerSet
    /\ req \in {[r \in Reqs |-> IF r = 1 THEN q ELSE NoRequest] : q \in CheckRequests}
    /\ pc = [r \in Reqs |-> IF r = 1 THEN "Check" ELSE "none"]
    /\ loc = [r \in Reqs |-> ZeroLocals]
    /\ resp = [r \in Reqs |-> ZeroResponse]
    /\ ret = [r \in Reqs |-> NoReturn]
    /\ calls = [r \in Reqs |-> <<>>]
    /\ StoreIdle
    /\ IlIdle
    /\ TmplIdle

CheckNext ==
    \E r \in Reqs :
        \/ CheckPreprocess(r)
        \/ CheckDispatch2(r)
        \/ CheckDispatchOld(r)
        \/ CheckQuota(r)
        \/ CheckQuotaOld(r)
        \/ CheckReturn(r)

CheckSpec == CheckInit /\ [][CheckNext]_vars

\* one Check request arrives at a server with both dispatchers whose log
\* also keeps the attributes looked up
RefInit ==
    /\ srv = [dispatcher |-> TRUE, denier |-> Nil, env |-> "traced"]
    /\ req \in {[r \in Reqs |-> IF r = 1 THEN q ELSE NoRequest] :
                  q \in {x \in CheckRequests : x.DeduplicationId = "d"}}
    /\ pc = [r \in Reqs |-> IF r = 1 THEN "Check" ELSE "none"]
    /\ loc = [r \in Reqs |-> ZeroLocals]
    /\ resp = [r \in Reqs |-> ZeroResponse]
    /\ ret = [r \in Reqs |-> NoReturn]
    /\ calls = [r \in Reqs |-> <<>>]
    /\ StoreIdle
    /\ IlIdle
    /\ TmplIdle

RefSpec == RefInit /\ [][CheckNext]_vars

\* what a check handler answers: a status, a duration and a use count
HandlerResults ==
    {CheckResult(s, d, c) : s \in {StatusOK, St(FAILED_PRECONDITION, "denied")},
                            d \in {5, 1000}, c \in {1, 1000}}

\* one Check request arrives at a server whose new dispatcher has at most
\* MaxHandlers check handlers behind rules that match
MergeInit ==
    /\ srv \in {[dispatcher |-> TRUE, denier |-> Nil, env |-> "handlers", results |-> rs] :
                  rs \in UNION {[1..n -> HandlerResults] : n \in 0..MaxHandlers}}
    /\ req \in {[r \in Reqs |-> IF r = 1 THEN q ELSE NoRequest] :
                  q \in {x \in CheckRequests :
                            x.DeduplicationId = "d" /\ Cardinality(DOMAIN x.Quotas) = 1}}
    /\ pc = [r \in Reqs |-> IF r = 1 THEN "Check" ELSE "none"]
    /\ loc = [r \in Reqs |-> ZeroLocals]
    /\ resp = [r \in Reqs |-> ZeroResponse]
    /\ ret = [r \in Reqs |-> NoReturn]
    /\ calls = [r \in Reqs |-> <<>>]
    /\ StoreIdle
    /\ IlIdle
    /\ TmplIdle

MergeSpec == MergeInit /\ [][CheckNext]_vars

\* the requests of two clients that ask for one quota each
OneQuotaRequests == {q \in CheckRequests : Cardinality(DOMAIN q.Quotas) = 1}

\* two Check requests arrive at a server whose dispatchers have only quotas
\* configured
ConcInit ==
    /\ srv = [dispatcher |-> TRUE, denier |-> Nil, env |-> "passing"]
    /\ req \in [Reqs -> OneQuotaRequests]
    /\ pc = [r \in Reqs |-> "Check"]
    /\ loc = [r \in Reqs |-> ZeroLocals]
    /\ resp = [r \in Reqs |-> ZeroResponse]
    /\ ret = [r \in Reqs |-> NoReturn]
    /\ calls = [r \in Reqs |-> <<>>]
    /\ StoreIdle
    /\ IlIdle
    /\ TmplIdle

ConcSpec == ConcInit /\ [][CheckNext]_vars

(***************************************************************************)
(* gRPC server: Report                                                     *)
(***************************************************************************)
INVALID_ARGUMENT == 3

\* the attributes a block can set, as a map from names to values
Deltas == {[a |-> 1], [a |-> 2], [b |-> 1]}

\* an attribute block of a ReportRequest; malformed: UpdateBagFromProto
\* cannot apply it; delta: the attributes it sets
Blocks == [malformed : BOOLEAN, delta : {EmptyMap}]

ReportRequests == [Attributes : UNION {[1..n -> Blocks] : n \in 0..MaxBlocks}]

\* the blocks and the requests of a batch whose blocks set attributes
BatchBlocks == [malformed : BOOLEAN, delta : Deltas]

BatchRequests == [Attributes : UNION {[1..n -> BatchBlocks] : n \in 0..MaxBlocks}]

\* the attributes Preprocess writes into preprocResponseBag for one block
preprocLayers(s) == IF s.env = "layers" THEN {{"x"}, {"y"}} ELSE {{}}

\* an update that forgets what the bag held
updateBagReplaces(bag, delta) == delta

\* requestBag after UpdateBagFromProto: the block's attributes over the bag's
UpdateBagFromProto(bag, delta) ==
    [k \in DOMAIN bag \cup DOMAIN delta |-> IF k \in DOMAIN delta THEN delta[k] ELSE bag[k]]

\* a Reset that clears nothing
resetKeeps(layer) == layer

\* preprocResponseBag.Reset(): the top layer is cleared, the parents are not
Reset(layer) == {}

\* what the report handlers of one dispatcher did with one bag, in the order
\* they were called
HandlerRuns == UNION {[1..n -> {"ok", "failed"}] : n \in 0..MaxHandlers}

everyHandlerFailed(run) == run # <<>> /\ \A i \in DOMAIN run : run[i] = "failed"

\* Dispatcher.Report of the new dispatcher over what its handlers did: the
\* errors are logged, the call is an error only if every handler failed
dispatcherReport(run) == IF everyHandlerFailed(run) THEN Ptr("handler error") ELSE Nil

\* what the report handlers of the new dispatcher of server s did: anything,
\* or the runs of a dispatcher with one report handler
reportRuns(s) == IF s.env = "layers" THEN {<<"ok">>, <<"failed">>} ELSE HandlerRuns

\* the statuses the legacy dispatcher's Report hands back
legacyReportOutcomes(s) == IF s.env = "passing" THEN {StatusOK} ELSE StatusSet

\* status.InvalidWithDetails
InvalidWithDetails(msg) == St(INVALID_ARGUMENT, msg)

\* the locals of Report:
\*   i      the index of the block in hand, from 0
\*   err    the error to return
\*   out2   the status of the new dispatcher's Report
\*   resets Reset calls on preprocResponseBag
\*   bags   Done calls on protoBag, requestBag, preprocResponseBag
\*   acq    the bags acquired (NewProtoBag, GetMutableBag)
\*   late   the bags that were read or written after their Done
\*   attrs  the attributes read through requestBag (protoBag underneath)
\*   layer  the attributes in the top layer of preprocResponseBag
\*   wrote  the attributes Preprocess wrote for the block in hand
\*   seen   the bags handed to the report dispatchers, block by block
ReportLocals ==
    [i |-> 0, err |-> Nil, out2 |-> StatusOK, resets |-> 0,
     bags |-> [protoBag |-> 0, requestBag |-> 0, preprocResponseBag |-> 0],
     acq |-> {}, late |-> {},
     attrs |-> EmptyMap, layer |-> {}, wrote |-> {}, seen |-> <<>>]

\* a Report that goes through its loop whatever the request holds
earlyOutNever(q) == FALSE

\* Report's early out: len(req.Attributes) == 0
earlyOut(q) == Len(q.Attributes) = 0

\* an UpdateBagFromProto that applies whatever it is given
updateBagNeverFails(i, block) == FALSE

\* requestBag.UpdateBagFromProto fails: only the blocks after the first are
\* applied to requestBag, the first is the foundation of protoBag
updateBagFails(i, block) == i > 0 /\ block.malformed

\* Report, up to its loop: the early out, or the bags
ReportEnter(r) ==
    /\ pc[r] = "Report"
    /\ IF earlyOut(req[r])
         THEN /\ ret' = [ret EXCEPT ![r] = [done |-> TRUE, resp |-> TRUE, err |-> Nil]]
              /\ pc' = [pc EXCEPT ![r] = "done"]
              /\ loc' = loc
         ELSE /\ ret' = ret
              /\ pc' = [pc EXCEPT ![r] = "block"]
              /\ loc' = [loc EXCEPT ![r].acq = {"protoBag", "requestBag", "preprocResponseBag"},
                                    ![r].attrs = IF req[r].Attributes = <<>> THEN EmptyMap
                                                 ELSE req[r].Attributes[1].delta]
    /\ UNCHANGED <<srv, req, resp, calls>>
    /\ UNCHANGED <<storeVars, ilVars, tmplVars>>

\* Report's loop, one block up to the answer of Preprocess
ReportPreprocess(r) ==
    /\ pc[r] = "block"
    /\ LET i == loc[r].i
       IN  IF updateBagFails(i, req[r].Attributes[i + 1])
             THEN /\ loc' = [loc EXCEPT ![r].err =
                               Ptr(makeGRPCError(InvalidWithDetails("invalid attributes"))),
                                        ![r].late = @ \cup usedAfterDone(loc[r].bags,
                                                                         {"requestBag"})]
                  /\ pc' = [pc EXCEPT ![r] = "return"]
                  /\ calls' = calls
             ELSE \E out \in preprocessOutcomes(srv), wrote \in preprocLayers(srv) :
                    LET attrs == IF i > 0
                                 THEN UpdateBagFromProto(loc[r].attrs,
                                                         req[r].Attributes[i + 1].delta)
                                 ELSE loc[r].attrs
                    IN
                    /\ calls' = [calls EXCEPT ![r] = Append(@, Call("Preprocess", NoArgs, Nil, Nil, out))]
                    /\ IF ~IsOK(out)
                         THEN /\ wrote = CHOOSE w \in preprocLayers(srv) : TRUE
                              /\ loc' = [loc EXCEPT ![r].err = Ptr(makeGRPCError(out)),
                                                    ![r].attrs = attrs,
                                                    ![r].late = @ \cup usedAfterDone(loc[r].bags,
                                                         {"requestBag", "preprocResponseBag"})]
                              /\ pc' = [pc EXCEPT ![r] = "return"]
                         ELSE /\ loc' = [loc EXCEPT ![r].out2 = StatusOK,
                                                    ![r].attrs = attrs,
                                                    ![r].layer = @ \cup wrote,
                                                    ![r].wrote = wrote,
                                                    ![r].late = @ \cup usedAfterDone(loc[r].bags,
                                                         {"requestBag", "preprocResponseBag"})]
                              /\ pc' = [pc EXCEPT ![r] = "report2"]
    /\ UNCHANGED <<srv, req, resp, ret>>
    /\ UNCHANGED <<storeVars, ilVars, tmplVars>>

\* Report's loop: the new dispatcher's Report, when there is a new dispatcher
ReportDispatch2(r) ==
    /\ pc[r] = "report2"
    /\ IF srv.dispatcher
         THEN \E run \in reportRuns(srv) :
                LET err == dispatcherReport(run)
                IN  /\ calls' = [calls EXCEPT ![r] =
                                    Append(@, Call("Report2", NoArgs, run, err, StatusOK))]
                    /\ loc' = [loc EXCEPT ![r].out2 =
                                  IF err # Nil THEN WithError(Deref(err)) ELSE StatusOK,
                                          ![r].late = @ \cup usedAfterDone(loc[r].bags,
                                                                           {"preprocResponseBag"})]
         ELSE UNCHANGED <<calls, loc>>
    /\ pc' = [pc EXCEPT ![r] = "reportOld"]
    /\ UNCHANGED <<srv, req, resp, ret>>
    /\ UNCHANGED <<storeVars, ilVars, tmplVars>>

\* Report's loop: the legacy dispatcher's Report, and the end of the block
ReportDispatchOld(r) ==
    /\ pc[r] = "reportOld"
    /\ \E legacy \in legacyReportOutcomes(srv) :
         LET out == combineStatus(loc[r].out2, legacy)
             last == loc[r].i + 1 = Len(req[r].Attributes)
             bag == [i |-> loc[r].i, attrs |-> loc[r].attrs, layer |-> loc[r].layer,
                     wrote |-> loc[r].wrote]
         IN  /\ calls' = [calls EXCEPT ![r] = Append(@, Call("Report", NoArgs, Nil, Nil, legacy))]
             /\ IF ~IsOK(out)
                  THEN /\ loc' = [loc EXCEPT ![r].err = Ptr(makeGRPCError(out)),
                                             ![r].seen = Append(@, bag),
                                             ![r].late = @ \cup usedAfterDone(loc[r].bags,
                                                                              {"preprocResponseBag"})]
                       /\ pc' = [pc EXCEPT ![r] = "return"]
                  ELSE /\ loc' = [loc EXCEPT ![r].i = @ + 1, ![r].resets = @ + 1,
                                             ![r].seen = Append(@, bag),
                                             ![r].layer = Reset(@),
                                             ![r].late = @ \cup usedAfterDone(loc[r].bags,
                                                                              {"preprocResponseBag"})]
                       /\ pc' = [pc EXCEPT ![r] = IF last THEN "return" ELSE "block"]
    /\ UNCHANGED <<srv, req, resp, ret>>
    /\ UNCHANGED <<storeVars, ilVars, tmplVars>>

\* Report releases the bags and returns the error or the response
ReportReturn(r) ==
    /\ pc[r] = "return"
    /\ loc' = [loc EXCEPT ![r].bags =
                  doneBags(@, {"protoBag", "requestBag", "preprocResponseBag"})]
    /\ ret' = [ret EXCEPT ![r] =
                  [done |-> TRUE, resp |-> loc[r].err = Nil, err |-> loc[r].err]]
    /\ pc' = [pc EXCEPT ![r] = "done"]
    /\ UNCHANGED <<srv, req, resp, calls>>
    /\ UNCHANGED <<storeVars, ilVars, tmplVars>>

\* one Report request arrives
ReportInit ==
    /\ srv \in {[dispatcher |-> d, denier |-> Nil, env |-> "any"] : d \in BOOLEAN}
    /\ req \in {[r \in Reqs |-> IF r = 1 THEN q ELSE [Attributes |-> <<>>]] : q \in ReportRequests}
    /\ pc = [r \in Reqs |-> IF r = 1 THEN "Report" ELSE "none"]
    /\ loc = [r \in Reqs |-> ReportLocals]
    /\ resp = [r \in Reqs |-> ZeroResponse]
    /\ ret = [r \in Reqs |-> NoReturn]
    /\ calls = [r \in Reqs |-> <<>>]
    /\ StoreIdle
    /\ IlIdle
    /\ TmplIdle

ReportNext ==
    \E r \in Reqs :
        \/ ReportEnter(r)
        \/ ReportPreprocess(r)
        \/ ReportDispatch2(r)
        \/ ReportDispatchOld(r)
        \/ ReportReturn(r)

ReportSpec == ReportInit /\ [][ReportNext]_vars

\* one Report request arrives whose blocks set attributes, at a server whose
\* Preprocess writes attributes
BatchInit ==
    /\ srv \in {[dispatcher |-> d, denier |-> Nil, env |-> "layers"] : d \in BOOLEAN}
    /\ req \in {[r \in Reqs |-> IF r = 1 THEN q ELSE [Attributes |-> <<>>]] : q \in BatchRequests}
    /\ pc = [r \in Reqs |-> IF r = 1 THEN "Report" ELSE "none"]
    /\ loc = [r \in Reqs |-> ReportLocals]
    /\ resp = [r \in Reqs |-> ZeroResponse]
    /\ ret = [r \in Reqs |-> NoReturn]
    /\ calls = [r \in Reqs |-> <<>>]
    /\ StoreIdle
    /\ IlIdle
    /\ TmplIdle

BatchSpec == BatchInit /\ [][ReportNext]_vars

(***************************************************************************)
(* gRPC server: either method                                              *)
(***************************************************************************)
\* one request arrives, a Check or a Report
ApiInit == CheckInit \/ ReportInit

ApiNext == CheckNext \/ ReportNext

ApiSpec == ApiInit /\ [][ApiNext]_vars

(***************************************************************************)
(* Expression evaluator (package evaluator, IL)                            *)
(*                                                                         *)
(* Only the evaluator's test is in the sources; the evaluator follows the  *)
(* compile, evaluate and caching contracts.  Values carry their type and   *)
(* are written as strings.                                                 *)
(***************************************************************************)
\* the most vocabularies that replace the one the evaluator was built with
MaxVocabularies == 2

\* the manifests of the test: the type of the one attribute, attr
configInt == [attr |-> "INT64"]

configString == [attr |-> "STRING"]

configBool == [attr |-> "BOOL"]

Finders == {configInt, configString, configBool}

Value(t, v) == [type |-> t, val |-> v]

Values == {Value("INT64", "23"), Value("BOOL", "true"), Value("BOOL", "false"),
           Value("STRING", "foo")}

\* initBag(attrValue): a bag holding attr
initBag(attrValue) == [attr |-> attrValue]

Bags == {initBag(v) : v \in Values}

\* the expression texts: the attribute, and a name no manifest declares
Texts == {"attr", "boo"}

Program(text, type, id) == [text |-> text, type |-> type, id |-> id]

\* Compile(text, vocabulary): the program and its result type, or a type error
Compile(text, finder, id) ==
    IF text \in DOMAIN finder
    THEN [program |-> Ptr(Program(text, finder[text], id)), err |-> ""]
    ELSE [program |-> Nil, err |-> "TypeError"]

\* a lookup keyed by the text alone
lookupByText(cache, id, text) ==
    LET hits == {p \in cache : p.text = text}
    IN IF hits = {} THEN Nil ELSE Ptr(CHOOSE p \in hits : TRUE)

\* the cache is keyed by (vocabularyID, text)
lookup(cache, id, text) ==
    LET hits == {p \in cache : p.id = id /\ p.text = text}
    IN IF hits = {} THEN Nil ELSE Ptr(CHOOSE p \in hits : TRUE)

\* the cached program of the live vocabulary, compiled and cached at a miss
getOrCompile(e, text) ==
    LET hit == lookup(e.cache, e.id, text)
        c == Compile(text, e.finder, e.id)
    IN IF hit # Nil THEN [program |-> hit, err |-> "", cache |-> e.cache]
       ELSE IF c.err # "" THEN [program |-> Nil, err |-> c.err, cache |-> e.cache]
       ELSE [program |-> c.program, err |-> "", cache |-> e.cache \cup {Deref(c.program)}]

\* Eval(program, bag) for the evaluator whose vocabulary is id
run(program, id, bag) ==
    IF program.id # id THEN [val |-> "", err |-> "StaleProgramError"]
    ELSE IF program.text \notin DOMAIN bag THEN [val |-> "", err |-> "UnresolvedAttribute"]
    ELSE IF bag[program.text].type # program.type THEN [val |-> "", err |-> "TypeMismatch"]
    ELSE [val |-> bag[program.text].val, err |-> ""]

\* EvalPredicate(program, bag): requires resultType == BOOL
runPredicate(program, id, bag) ==
    IF program.type # "BOOL" THEN [val |-> "", err |-> "TypeError"]
    ELSE run(program, id, bag)

Last(op, finder, text, bag, program, val, err) ==
    [op |-> op, finder |-> finder, text |-> text, bag |-> bag, program |-> program,
     val |-> val, err |-> err]

\* ChangeVocabulary(finder): swaps the finder and bumps the vocabulary id; the
\* same vocabulary again is a no-op
ChangeVocabulary(f) ==
    /\ il.finder # f => il.id <= MaxVocabularies
    /\ il' = [il EXCEPT !.finder = f,
                        !.id = IF il.finder = f THEN @ ELSE @ + 1,
                        !.last = Last("ChangeVocabulary", Ptr(f), "", Nil, Nil, "", "")]
    /\ UNCHANGED <<storeVars, apiVars, tmplVars>>

\* e.Eval(text, bag), e.evalResult(text, bag)
Eval(text, bag) ==
    LET g == getOrCompile(il, text)
        r == IF g.err # "" THEN [val |-> "", err |-> g.err]
             ELSE run(Deref(g.program), il.id, bag)
    IN /\ il' = [il EXCEPT !.cache = g.cache,
                           !.last = Last("Eval", Nil, text, Ptr(bag), g.program, r.val, r.err)]
       /\ UNCHANGED <<storeVars, apiVars, tmplVars>>

\* e.EvalPredicate(text, bag)
EvalPredicate(text, bag) ==
    LET g == getOrCompile(il, text)
        r == IF g.err # "" THEN [val |-> "", err |-> g.err]
             ELSE runPredicate(Deref(g.program), il.id, bag)
    IN /\ il' = [il EXCEPT !.cache = g.cache,
                           !.last = Last("EvalPredicate", Nil, text, Ptr(bag), g.program,
                                         r.val, r.err)]
       /\ UNCHANGED <<storeVars, apiVars, tmplVars>>

\* a caller evaluates a program it obtained earlier
EvalProgram(program, bag) ==
    LET r == run(program, il.id, bag)
    IN /\ program \in il.cache
       /\ il' = [il EXCEPT !.last = Last("EvalProgram", Nil, program.text, Ptr(bag),
                                         Ptr(program), r.val, r.err)]
       /\ UNCHANGED <<storeVars, apiVars, tmplVars>>

\* initEvaluator(t, config): NewILEvaluator, then ChangeVocabulary(finder)
initEvaluator(config) ==
    [finder |-> config, id |-> 1, cache |-> {},
     last |-> Last("ChangeVocabulary", Ptr(config), "", Nil, Nil, "", "")]

IlInit ==
    /\ il \in {initEvaluator(config) : config \in Finders}
    /\ StoreIdle
    /\ ApiIdle
    /\ TmplIdle

IlNext ==
    \/ \E f \in Finders : ChangeVocabulary(f)
    \/ \E text \in Texts, bag \in Bags : Eval(text, bag)
    \/ \E text \in Texts, bag \in Bags : EvalPredicate(text, bag)
    \/ \E id \in 1..(MaxVocabularies + 1), text \in Texts, f \in Finders, bag \in Bags :
          /\ text \in DOMAIN f
          /\ EvalProgram(Program(text, f[text], id), bag)

IlSpec == IlInit /\ [][IlNext]_vars

(***************************************************************************)
(* Template processing: ProcessReport of the sample report template        *)
(*                                                                         *)
(* The generated ProcessReport is not in the sources; TestProcessReport    *)
(* fixes what it returns: nil after the handler took every instance, the   *)
(* handler's error, or the evaluation error of an instance's field.  What  *)
(* the test leaves open (whether the handler is still called after an      *)
(* evaluation error) is left open here.                                    *)
(***************************************************************************)
InstanceNames == {"foo", "bar"}

\* field expressions: a literal, and an attribute the bag does not hold
Exprs == {"1", "bad.attribute"}

InstanceParams == [Value : Exprs, Dimensions : Exprs]

InstanceMaps == UNION {[ns -> InstanceParams] : ns \in SUBSET InstanceNames}

\* fakeReportHandler{retError}
fakeReportHandlers == {[retError |-> Nil], [retError |-> Ptr("error from process method")]}

\* fakeExpr.Eval over fakeBag{}: no attribute resolves
fakeExprEval(mapExpression) ==
    IF mapExpression = "bad.attribute"
    THEN [val |-> "", err |-> "unresolved attribute bad.attribute"]
    ELSE [val |-> mapExpression, err |-> ""]

\* the Instance of one InstanceParam, or the error of its first failing field
materialize(name, param) ==
    LET v == fakeExprEval(param.Value)
        d == fakeExprEval(param.Dimensions)
    IN IF v.err # "" THEN [inst |-> Nil, err |-> v.err]
       ELSE IF d.err # "" THEN [inst |-> Nil, err |-> d.err]
       ELSE [inst |-> Ptr([Name |-> name, Value |-> v.val, Dimensions |-> d.val]),
             err |-> ""]

\* the instances among order that materialize, in that order
RECURSIVE materialized(_, _)
materialized(insts, order) ==
    IF order = <<>> THEN <<>>
    ELSE LET m == materialize(Head(order), insts[Head(order)])
         IN (IF m.err = "" THEN <<Deref(m.inst)>> ELSE <<>>)
            \o materialized(insts, Tail(order))

\* the error of the first instance in order that fails to materialize, "" if none
RECURSIVE firstError(_, _)
firstError(insts, order) ==
    IF order = <<>> THEN ""
    ELSE LET m == materialize(Head(order), insts[Head(order)])
         IN IF m.err # "" THEN m.err ELSE firstError(insts, Tail(order))

\* what ProcessReport returns: "" is a nil error
processReportError(insts, order, hdlr) ==
    IF firstError(insts, order) # "" THEN firstError(insts, order)
    ELSE IF hdlr.retError # Nil THEN Deref(hdlr.retError)
    ELSE ""

\* SupportedTmplInfo[sample_report.TemplateName].ProcessReport(ctx, insts, bag,
\* mapper, handler); the map is walked in any order
ProcessReport(order, called) ==
    LET failed == firstError(tmpl.insts, order) # ""
    IN /\ tmpl # <<>>
       /\ tmpl.ret = Nil
       /\ ~failed => called
       /\ tmpl' = [tmpl EXCEPT
             !.order = order,
             !.procCallInput = IF called THEN Ptr(materialized(tmpl.insts, order)) ELSE Nil,
             !.ret = Ptr(processReportError(tmpl.insts, order, tmpl.hdlr))]
       /\ UNCHANGED <<storeVars, apiVars, ilVars>>

TmplInit ==
    /\ tmpl \in {[insts |-> insts, hdlr |-> hdlr, order |-> <<>>, procCallInput |-> Nil,
                  ret |-> Nil] : insts \in InstanceMaps, hdlr \in fakeReportHandlers}
    /\ StoreIdle
    /\ ApiIdle
    /\ IlIdle

TmplNext ==
    \E order \in Orderings(DOMAIN tmpl.insts), called \in BOOLEAN :
        ProcessReport(order, called)

TmplSpec == TmplInit /\ [][TmplNext]_vars

(***************************************************************************)
(* Config store: properties                                                *)
(***************************************************************************)
\* how many events of type t for key k the subscriber received from the poll
Emitted(k, t) == Cardinality({i \in DOMAIN sent : sent[i].Key = k /\ sent[i].Type = t})

pollKeys == DOMAIN pollPrev \cup DOMAIN pollRead \cup {sent[i].Key : i \in DOMAIN sent}

\* the poll is over and its watch was live from its start to its end
pollOverLive == spc \in {"idle", "stopped"} /\ pollLive

\* C1: a poll with a live watch emits exactly one Update for each key that is
\* new or whose hash differs from the previous snapshot, exactly one Delete
\* for each key of the previous snapshot that the new read lacks, and no
\* other event.
C1_ExactEvents ==
    pollOverLive =>
        \A k \in pollKeys :
            /\ Emitted(k, "Update") =
                  IF k \in DOMAIN pollRead
                     /\ (k \in DOMAIN pollPrev => pollRead[k].sha # pollPrev[k].sha)
                  THEN 1 ELSE 0
            /\ Emitted(k, "Delete") =
                  IF k \in DOMAIN pollPrev /\ k \notin DOMAIN pollRead THEN 1 ELSE 0
            /\ \A i \in DOMAIN sent : sent[i].Type \in {"Update", "Delete"}

\* a live poll that ended having emitted an Update for a changed resource and
\* a Delete for a removed one
C1_Witness ==
    /\ pollOverLive
    /\ \E k \in DOMAIN pollPrev \cap DOMAIN pollRead : Emitted(k, "Update") = 1
    /\ \E k \in DOMAIN pollPrev \ DOMAIN pollRead : Emitted(k, "Delete") = 1

\* the source, as the poll that is sending read it, holds a document that is
\* not YAML and was the document of resource k
unparseableDocOf(k) ==
    \E j \in DOMAIN fs : parseChunk(fs[j]).err /\ fs[j].yaml # "ok" /\ Key(fs[j]) = k

\* C2: a document that fails to parse never causes a Delete: while a poll
\* sends, no Delete event has been emitted for a key whose document in the
\* source that poll read no longer parses.
C2_NoDeleteOnParseFailure ==
    spc = "sending" =>
        \A i \in DOMAIN sent : sent[i].Type = "Delete" => ~unparseableDocOf(sent[i].Key)

\* s holds elements of l in the order l has them
RECURSIVE isSubseq(_, _)
isSubseq(s, l) ==
    IF s = <<>> THEN TRUE
    ELSE IF l = <<>> THEN FALSE
    ELSE IF Head(s) = Head(l) THEN isSubseq(Tail(s), Tail(l))
    ELSE isSubseq(s, Tail(l))

\* the events of the poll were received in the order they were sent: of some
\* list checkAndUpdate can build, evs is the end, and sent holds events of
\* the part before it in its order, all of them if the watch stayed live
receivedInOrder ==
    \E L \in eventLists(pollPrev, pollRead) :
        /\ Len(evs) <= Len(L)
        /\ evs = SubSeq(L, Len(L) - Len(evs) + 1, Len(L))
        /\ isSubseq(sent, SubSeq(L, 1, Len(L) - Len(evs)))
        /\ pollLive => sent = SubSeq(L, 1, Len(L) - Len(evs))

\* with an event to send and the watch not cancelled, the poller stays
\* where it is unless the subscriber receives that event
sendBlocks ==
    (spc = "sending" /\ evs # <<>> /\ watch # "cancelled") =>
        \/ spc' = spc /\ evs' = evs /\ sent' = sent
        \/ spc' = spc /\ evs' = Tail(evs) /\ sent' = Append(sent, Head(evs))

\* C16: the sends of the config store block and the watch context interrupts
\* them: the poller goes to its next event only when the subscriber has
\* received the current one, the events of a poll are received in the order
\* they were sent, and once the watch context is cancelled the poller is
\* never blocked on a send (it can give the event up, or end the poll).
C16_BlockingInterruptibleSends ==
    /\ [](receivedInOrder /\ (spc = "sending" => data = pollRead))
    /\ []((spc = "sending" /\ watch = "cancelled") => ENABLED (DropEvent \/ FinishPoll))
    /\ [][sendBlocks]_vars

\* the subscriber has received the first event of a poll, the watch was
\* cancelled after that, and the poller has the second event to send
C16_Witness ==
    /\ spc = "sending"
    /\ watch = "cancelled"
    /\ Len(sent) = 1
    /\ Len(evs) = 1

\* the keys both snapshots of the poll hold with different hashes
rewrittenKeys == {k \in DOMAIN pollPrev \cap DOMAIN pollRead : pollRead[k].sha # pollPrev[k].sha}

\* C17: a poll that finds the same keys with the same hashes as the previous
\* snapshot emits no event and leaves the snapshot as it was; a poll that
\* finds the same keys, several, and one of them with another hash emits one
\* Update, for that key, and the other resources are stored as they were,
\* hash included.
C17_UnchangedPollIsSilent ==
    (spc # "new" /\ DOMAIN pollRead = DOMAIN pollPrev) =>
        /\ rewrittenKeys = {} =>
              /\ sent = <<>> /\ evs = <<>>
              /\ data = pollPrev
        /\ (Cardinality(rewrittenKeys) = 1 /\ Cardinality(DOMAIN pollRead) > 1) =>
              /\ \A k \in DOMAIN pollPrev \ rewrittenKeys :
                    /\ k \in DOMAIN data
                    /\ data[k] = pollPrev[k]
                    /\ data[k].sha = pollPrev[k].sha
                    /\ Emitted(k, "Update") = 0 /\ Emitted(k, "Delete") = 0
              /\ \A k \in rewrittenKeys : data[k] = pollRead[k] /\ Emitted(k, "Delete") = 0
              /\ pollOverLive =>
                    \E k \in rewrittenKeys : sent = <<UpdateEvent(k, pollRead[k])>>

\* a live poll over two resources, one of them rewritten, has ended with one
\* Update received
C17_Witness ==
    /\ pollOverLive
    /\ DOMAIN pollRead = DOMAIN pollPrev
    /\ Cardinality(DOMAIN pollRead) = 2
    /\ Cardinality(rewrittenKeys) = 1
    /\ Len(sent) = 1 /\ sent[1].Type = "Update"

\* the keys of the documents a source can hold
DocKeys == {Key(c) : c \in DocSet}

\* C18: only documents whose kind was passed to Init are kept: a resource of
\* another kind is in no snapshot, Get does not find it, List does not hold
\* it, and no Update or Delete event is made for it.
C18_OnlyKnownKinds ==
    /\ kinds \subseteq KindsArg
    /\ \A k \in DOMAIN data \cup DOMAIN pollRead \cup DOMAIN pollPrev : k.Kind \in KindsArg
    /\ \A k \in DOMAIN List(data) : k.Kind \in KindsArg
    /\ \A k \in DocKeys :
          k.Kind \notin KindsArg => Get(data, k) = [res |-> Nil, err |-> Ptr(ErrNotFound)]
    /\ \A i \in DOMAIN sent : sent[i].Key.Kind \in KindsArg
    /\ \A i \in DOMAIN evs : evs[i].Key.Kind \in KindsArg

\* a live poll has read a source that holds a rule and a document of
\* another kind, and has sent the one event for the rule
C18_Witness ==
    /\ pollOverLive
    /\ Len(fs) = 2
    /\ \E i \in DOMAIN fs : fs[i].Kind = "other"
    /\ pollRead = readFiles(fs, kinds)
    /\ Cardinality(DOMAIN data) = 1
    /\ Len(sent) = 1 /\ sent[1].Type = "Update"

\* the document is YAML and names its kind, its namespace and its name
wellFormed(c) == c.yaml = "ok" /\ c.Kind # "" /\ c.Namespace # "" /\ c.Name # ""

\* the document is YAML and holds white space or comments only
blank(c) == c.yaml = "ok" /\ c.Kind = "" /\ c.Namespace = "" /\ c.Name = "" /\ c.Spec = NoSpec

\* C19: parsing a file of several documents skips an empty document with no
\* error, rejects with an error a document whose kind, namespace or name is
\* empty, and returns the resources of all the other documents of the file,
\* in their order, whatever documents were skipped or rejected among them.
C19_ParseSkipsAndRejects ==
    LET good == SelectSeq(fs, wellFormed)
        res == parseFile(fs)
    IN  /\ \A i \in DOMAIN fs :
              /\ blank(fs[i]) => parseChunk(fs[i]) = [r |-> Nil, err |-> FALSE]
              /\ (fs[i].yaml = "ok" /\ ~blank(fs[i]) /\ ~wellFormed(fs[i])) =>
                    parseChunk(fs[i]) = [r |-> Nil, err |-> TRUE]
              /\ wellFormed(fs[i]) =>
                    /\ ~parseChunk(fs[i]).err
                    /\ parseChunk(fs[i]).r # Nil
        /\ Len(res) = Len(good)
        /\ \A j \in DOMAIN res :
              /\ Key(res[j]) = Key(good[j])
              /\ res[j].Spec = good[j].Spec
              /\ res[j].sha = sha1Sum(good[j])

\* a poll has read a source whose first document has no name and whose
\* second is a rule, and holds the rule
C19_Witness ==
    /\ spc = "idle"
    /\ Len(fs) = 2
    /\ fs[1].yaml = "ok" /\ ~blank(fs[1]) /\ ~wellFormed(fs[1])
    /\ wellFormed(fs[2]) /\ fs[2].Kind = "rule"
    /\ pollRead = readFiles(fs, kinds)
    /\ DOMAIN data = {Key(fs[2])}

(***************************************************************************)
(* gRPC server: properties of Check                                        *)
(***************************************************************************)
isQuotaCall(c) == c.op \in {"Quota2", "Quota"}

\* the places in request r's calls where op was called for quota name
callsOf(r, op, name) ==
    {i \in DOMAIN calls[r] : calls[r][i].op = op /\ calls[r][i].args.Quota = name}

\* the precondition status of request r has been computed and written
preconditionSet(r) == pc[r] \in {"quota", "quotaOld", "finish"} \/ (pc[r] = "done" /\ ret[r].resp)

\* C3: quotas are evaluated last: a quota is dispatched (to either
\* dispatcher) only after Preprocess and both Checks were dispatched and the
\* precondition status was written, only when the two Check statuses are OK
\* and the request names a quota; otherwise the response has no quota result.
C3_QuotasLast ==
    \A r \in Reqs :
        /\ \A i \in DOMAIN calls[r] :
              isQuotaCall(calls[r][i]) =>
                  /\ preconditionSet(r)
                  /\ \E j \in 1..(i - 1) : calls[r][j].op = "Check"
                  /\ \A j \in DOMAIN calls[r] : ~isQuotaCall(calls[r][j]) => j < i
                  /\ IsOK(loc[r].out2) /\ IsOK(loc[r].out)
                  /\ DOMAIN req[r].Quotas # {}
        /\ ~(IsOK(loc[r].out2) /\ IsOK(loc[r].out) /\ DOMAIN req[r].Quotas # {}) =>
              /\ resp[r].Quotas = EmptyMap
              /\ \A i \in DOMAIN calls[r] : ~isQuotaCall(calls[r][i])

\* a Check that returned quota results, having dispatched to both quota paths
C3_Witness ==
    \E r \in Reqs :
        /\ ret[r].done /\ ret[r].resp
        /\ DOMAIN resp[r].Quotas = QuotaNames
        /\ \E i, j \in DOMAIN calls[r] : calls[r][i].op = "Quota2" /\ calls[r][j].op = "Quota"

\* C4: when the new dispatcher's Quota returns an error, the precondition
\* status of the response becomes that error as a status, nothing is
\* dispatched after that call, the quota gets no result, and the referenced
\* attributes of the request bag are cleared.
C4_QuotaErrorFailsCheck ==
    \A r \in Reqs : \A i \in DOMAIN calls[r] :
        (calls[r][i].op = "Quota2" /\ calls[r][i].err # Nil) =>
            /\ resp[r].Status = St(INTERNAL, Deref(calls[r][i].err))
            /\ i = Len(calls[r])
            /\ pc[r] \in {"finish", "done"}
            /\ calls[r][i].args.Quota \notin DOMAIN resp[r].Quotas
            /\ loc[r].refs = {}
            /\ pc[r] = "done" => ret[r].resp /\ ret[r].err = Nil

\* a Check with two quotas returned after the second one's dispatch failed
C4_Witness ==
    \E r \in Reqs :
        /\ pc[r] = "done"
        /\ Cardinality(DOMAIN resp[r].Quotas) = 1
        /\ calls[r][Len(calls[r])].op = "Quota2"
        /\ calls[r][Len(calls[r])].err # Nil
        /\ calls[r][Len(calls[r])].val # Nil
        /\ loc[r].todo = {}

\* C5: whenever the new dispatcher's Check returns an error, the
\* precondition status of the response is not OK, whatever CheckResult comes
\* with the error.
C5_CheckErrorIsNonOK ==
    \A r \in Reqs : \A i \in DOMAIN calls[r] :
        (calls[r][i].op = "Check2" /\ calls[r][i].err # Nil /\ preconditionSet(r)) =>
            ~IsOK(resp[r].Status)

\* the new quota path had nothing for quota name of request r: there is no
\* new dispatcher, or its Quota returned nil and no error
newPathHadNothing(r, name) ==
    \/ ~srv.dispatcher
    \/ \E i \in callsOf(r, "Quota2", name) : calls[r][i].val = Nil /\ calls[r][i].err = Nil

C7_LegacyOnlyOnNil ==
    \A r \in Reqs :
        /\ \A i \in DOMAIN calls[r] :
              calls[r][i].op = "Quota" =>
                  /\ newPathHadNothing(r, calls[r][i].args.Quota)
                  /\ srv.dispatcher =>
                        /\ i > 1
                        /\ calls[r][i - 1].op = "Quota2"
                        /\ calls[r][i - 1].args = calls[r][i].args
                        /\ calls[r][i - 1].val = Nil /\ calls[r][i - 1].err = Nil
        /\ \A i \in DOMAIN calls[r] :
              calls[r][i].op = "Quota2" =>
                  LET name == calls[r][i].args.Quota
                  IN  IF calls[r][i].err # Nil
                        THEN /\ callsOf(r, "Quota", name) = {}
                             /\ name \notin DOMAIN resp[r].Quotas
                      ELSE IF calls[r][i].val # Nil
                        THEN /\ callsOf(r, "Quota", name) = {}
                             /\ name \in DOMAIN resp[r].Quotas
                             /\ resp[r].Quotas[name].GrantedAmount = Deref(calls[r][i].val).Amount
                             /\ resp[r].Quotas[name].ValidDuration =
                                    Deref(calls[r][i].val).ValidDuration
                      ELSE \/ pc[r] = "quotaOld" /\ loc[r].cur = name /\ i = Len(calls[r])
                           \/ i + 1 \in callsOf(r, "Quota", name)
        /\ \A name \in DOMAIN resp[r].Quotas :
              (~srv.dispatcher) => callsOf(r, "Quota", name) # {}

\* a Check that took one quota from the new path and one from the legacy path
C7_Witness ==
    \E r \in Reqs :
        /\ ret[r].done
        /\ \E i \in DOMAIN calls[r] :
              calls[r][i].op = "Quota2" /\ calls[r][i].val # Nil /\ calls[r][i].err = Nil
        /\ \E i \in DOMAIN calls[r] :
              /\ calls[r][i].op = "Quota2" /\ calls[r][i].val = Nil /\ calls[r][i].err = Nil
              /\ i < Len(calls[r]) /\ calls[r][i + 1].op = "Quota"

\* quota name of request r has had its turn in the quota loop
quotaReached(r, name) ==
    /\ preconditionSet(r)
    /\ IsOK(loc[r].out2) /\ IsOK(loc[r].out)
    /\ name \in DOMAIN req[r].Quotas
    /\ name \notin loc[r].todo

\* C8: each Check makes its own call of the new dispatcher's Quota for each
\* of its quotas, exactly one, with the request's quota name, amount and
\* bestEffort and with the id made of the request's deduplicationId and the
\* quota name; so two Checks with the same deduplicationId naming the same
\* quota produce two calls, one each, with the same id and the same
\* arguments, however they interleave.
C8_DedupForwarded ==
    /\ \A r \in Reqs : \A i \in DOMAIN calls[r] :
          calls[r][i].op = "Quota2" =>
              LET name == calls[r][i].args.Quota
              IN  /\ name \in DOMAIN req[r].Quotas
                  /\ calls[r][i].args.DeduplicationID = req[r].DeduplicationId \o name
                  /\ calls[r][i].args.Amount = req[r].Quotas[name].Amount
                  /\ calls[r][i].args.BestEffort = req[r].Quotas[name].BestEffort
    /\ \A r \in Reqs : \A name \in QuotaNames :
          Cardinality(callsOf(r, "Quota2", name)) = IF quotaReached(r, name) THEN 1 ELSE 0
    /\ \A r1, r2 \in Reqs : \A name \in DOMAIN req[r1].Quotas \cap DOMAIN req[r2].Quotas :
          (/\ req[r1].DeduplicationId = req[r2].DeduplicationId
           /\ req[r1].Quotas[name] = req[r2].Quotas[name]) =>
              \A i \in callsOf(r1, "Quota2", name), j \in callsOf(r2, "Quota2", name) :
                  calls[r1][i].args = calls[r2][j].args

\* two Checks with the same deduplicationId and the same quota have both
\* returned, each after one call of Quota with the id "dq"
C8_Witness ==
    /\ req[1] = req[2]
    /\ \A r \in Reqs :
          /\ ret[r].done
          /\ \E i \in callsOf(r, "Quota2", "q") :
                /\ calls[r][i].args.DeduplicationID = "dq"
                /\ callsOf(r, "Quota2", "q") = {i}

\* C9: behind a rule that matches every request, a denier configured with a
\* status makes the precondition of every Check response carry that status
\* code (FAILED_PRECONDITION = 9 by default).
C9_DenierStatusPassedThrough ==
    \A r \in Reqs :
        (srv.denier # Nil /\ ret[r].done /\ ret[r].resp) =>
            resp[r].Status.Code = Deref(srv.denier)

\* a response to a Check on a server whose denier is configured with
\* PERMISSION_DENIED carries the code 7
C9_Witness ==
    \E r \in Reqs :
        /\ srv.denier # Nil
        /\ ret[r].done /\ ret[r].resp
        /\ Deref(srv.denier) = PERMISSION_DENIED
        /\ resp[r].Status.Code = 7
        /\ ~IsOK(loc[r].out)

\* the calls of the new dispatcher's Report in which a handler succeeded
reportedCalls(r) ==
    {i \in DOMAIN calls[r] :
        /\ calls[r][i].op = "Report2"
        /\ \E h \in DOMAIN calls[r][i].val : calls[r][i].val[h] = "ok"}

\* C10: for Report, a handler's error is logged and the handler is skipped:
\* the Report call returns OK to the caller unless every report handler
\* fails, so a Report in which a report handler succeeded returns no error.
C10_ReportOKUnlessEveryHandlerFails ==
    \A r \in Reqs :
        (ret[r].done /\ reportedCalls(r) # {}) => ret[r].err = Nil

(***************************************************************************)
(* gRPC server: properties of Report                                       *)
(***************************************************************************)
\* the places in request r's calls where op was called
opCalls(r, op) == {i \in DOMAIN calls[r] : calls[r][i].op = op}

\* C11: a Report request with an empty attribute set returns OK, calls
\* neither Preprocess nor a report dispatcher, and acquires no bag.
C11_EmptyReportDoesNothing ==
    \A r \in Reqs :
        Len(req[r].Attributes) = 0 =>
            /\ calls[r] = <<>>
            /\ loc[r].acq = {}
            /\ loc[r].bags = ReportLocals.bags
            /\ pc[r] \in {"none", "Report", "done"}
            /\ ret[r].done => (ret[r].resp /\ ret[r].err = Nil)

\* a Report of no attribute block has returned its response
C11_Witness ==
    \E r \in Reqs :
        /\ Len(req[r].Attributes) = 0
        /\ pc[r] = "done" /\ ret[r].done /\ ret[r].resp
        /\ calls[r] = <<>>

\* Report left its loop at block i (from 0) of request r because the block
\* could not be applied to the request bag
stoppedAtMalformed(r, i) ==
    /\ pc[r] \in {"return", "done"}
    /\ loc[r].i = i
    /\ i > 0 /\ i < Len(req[r].Attributes)
    /\ req[r].Attributes[i + 1].malformed

\* C12: when a delta attribute block of a Report cannot be applied to the
\* request bag, Report returns an INVALID_ARGUMENT error, and neither
\* Preprocess nor a report dispatcher is called for that block: each was
\* called once for each of the blocks before it and no more.
C12_MalformedIsInvalidArgument ==
    \A r \in Reqs :
        /\ \A i \in 0..MaxBlocks :
              stoppedAtMalformed(r, i) =>
                  /\ loc[r].err # Nil
                  /\ Deref(loc[r].err).Code = 3
                  /\ Cardinality(opCalls(r, "Preprocess")) = i
                  /\ Cardinality(opCalls(r, "Report")) = i
                  /\ Cardinality(opCalls(r, "Report2")) = IF srv.dispatcher THEN i ELSE 0
                  /\ ret[r].done => (~ret[r].resp /\ ret[r].err = loc[r].err)
        /\ (pc[r] = "block" /\ loc[r].i > 0 /\ req[r].Attributes[loc[r].i + 1].malformed) =>
              Cardinality(opCalls(r, "Preprocess")) = loc[r].i

\* a Report returned INVALID_ARGUMENT for its second block after the first
\* one went through both report dispatchers
C12_Witness ==
    \E r \in Reqs :
        /\ stoppedAtMalformed(r, 1)
        /\ ret[r].done /\ ret[r].err # Nil
        /\ Deref(ret[r].err).Code = INVALID_ARGUMENT
        /\ srv.dispatcher
        /\ Cardinality(opCalls(r, "Report2")) = 1

(***************************************************************************)
(* gRPC server: properties of Check and Report                             *)
(***************************************************************************)
\* C13: when Preprocess answers with a status that is not OK, the request
\* fails with that status, the INTERNAL that Preprocess reports for a handler
\* error: Check returns no response and an error, Report returns an error,
\* and nothing is dispatched for that bag after Preprocess.
C13_PreprocessFailureFailsRequest ==
    \A r \in Reqs : \A i \in opCalls(r, "Preprocess") :
        ~IsOK(calls[r][i].out) =>
            /\ i = Len(calls[r])
            /\ pc[r] \in {"return", "done"}
            /\ pc[r] = "return" =>
                  loc[r].err = Ptr([Code |-> calls[r][i].out.Code,
                                    Message |-> calls[r][i].out.Message])
            /\ pc[r] = "done" =>
                  /\ ret[r].done /\ ~ret[r].resp
                  /\ ret[r].err = Ptr([Code |-> calls[r][i].out.Code,
                                       Message |-> calls[r][i].out.Message])

\* a request has failed with INTERNAL after its Preprocess answered INTERNAL
C13_Witness ==
    \E r \in Reqs :
        /\ ret[r].done /\ ret[r].err # Nil
        /\ Deref(ret[r].err).Code = INTERNAL
        /\ calls[r] # <<>>
        /\ calls[r][Len(calls[r])].op = "Preprocess"
        /\ calls[r][Len(calls[r])].out.Code = INTERNAL

(***************************************************************************)
(* gRPC server: the referenced attributes                                  *)
(***************************************************************************)
\* the attributes looked up during the calls of request r at the places I
lookedUp(r, I) == UNION {calls[r][i].used : i \in I}

\* the places of the calls of request r made up to the precondition
preconditionCalls(r) ==
    {i \in DOMAIN calls[r] : calls[r][i].op \in {"Preprocess", "Check2", "Check"}}

\* C14: the referenced attributes of the request bag are read into the
\* response and cleared after each read: the precondition carries the
\* attributes looked up during Preprocess and the Checks, each quota result
\* those looked up during the dispatch of that quota and no others, and when
\* Check returns a response the set of the bag is empty.
C14_ReferencedAttributesReadAndCleared ==
    \A r \in Reqs :
        /\ preconditionSet(r) =>
              resp[r].ReferencedAttributes = lookedUp(r, preconditionCalls(r))
        /\ \A name \in DOMAIN resp[r].Quotas :
              resp[r].Quotas[name].ReferencedAttributes =
                  lookedUp(r, callsOf(r, "Quota2", name) \cup callsOf(r, "Quota", name))
        /\ (ret[r].done /\ ret[r].resp) => loc[r].refs = {}
        /\ pc[r] \in {"quota", "finish"} => loc[r].refs = {}

\* a returned Check whose precondition references the attribute and whose
\* two quota results differ in their referenced attributes
C14_Witness ==
    \E r \in Reqs :
        /\ ret[r].done /\ ret[r].resp
        /\ resp[r].ReferencedAttributes = {"source.ip"}
        /\ DOMAIN resp[r].Quotas = QuotaNames
        /\ resp[r].Quotas["q"].ReferencedAttributes = {}
        /\ resp[r].Quotas["xq"].ReferencedAttributes = {"source.ip"}
        /\ loc[r].refs = {}

(***************************************************************************)
(* gRPC server: the validity of the precondition                           *)
(***************************************************************************)
\* C15: the ValidDuration and ValidUseCount of the Check response are those
\* of the CheckResult the new dispatcher returned, the least over the check
\* handlers that ran; they are the defaults, 10 s and 200, when the
\* dispatcher performed no check (nil result); and they exceed those of no
\* handler result.
C15_ValidityIsMinimum ==
    \A r \in Reqs : \A i \in opCalls(r, "Check2") :
        /\ calls[r][i].val # Nil =>
              /\ resp[r].ValidDuration = Deref(calls[r][i].val).ValidDuration
              /\ resp[r].ValidUseCount = Deref(calls[r][i].val).ValidUseCount
              /\ \E h \in DOMAIN srv.results :
                    resp[r].ValidDuration = srv.results[h].ValidDuration
              /\ \E h \in DOMAIN srv.results :
                    resp[r].ValidUseCount = srv.results[h].ValidUseCount
        /\ calls[r][i].val = Nil =>
              /\ srv.results = <<>>
              /\ resp[r].ValidDuration = 10
              /\ resp[r].ValidUseCount = 200
        /\ \A h \in DOMAIN srv.results :
              /\ resp[r].ValidDuration <= srv.results[h].ValidDuration
              /\ resp[r].ValidUseCount <= srv.results[h].ValidUseCount

\* a returned Check behind two handlers, one with the lesser duration and
\* the other with the lesser use count
C15_Witness ==
    \E r \in Reqs :
        /\ ret[r].done /\ ret[r].resp
        /\ Len(srv.results) = 2
        /\ srv.results[1].ValidDuration = 5 /\ srv.results[1].ValidUseCount = 1000
        /\ srv.results[2].ValidDuration = 1000 /\ srv.results[2].ValidUseCount = 1
        /\ resp[r].ValidDuration = 5 /\ resp[r].ValidUseCount = 1

(***************************************************************************)
(* gRPC server: the bags                                                   *)
(***************************************************************************)
\* C20: every bag acquired while serving a request is released at the end:
\* on every return of Check and of Report, Done was called exactly once on
\* each bag the request acquired and on no other; Done is never called twice
\* or on a bag that was not acquired, and no bag is used after its Done.
C20_BagsReleasedOnce ==
    \A r \in Reqs :
        /\ \A b \in DOMAIN loc[r].bags :
              /\ loc[r].bags[b] <= 1
              /\ loc[r].bags[b] = 1 => b \in loc[r].acq
              /\ ret[r].done => (loc[r].bags[b] = 1 <=> b \in loc[r].acq)
        /\ loc[r].acq \subseteq DOMAIN loc[r].bags
        /\ loc[r].late = {}
        /\ (ret[r].done /\ calls[r] # <<>>) => loc[r].acq # {}

\* a Check has returned after a quota error, its three bags released
C20_Witness ==
    \E r \in Reqs :
        /\ ret[r].done /\ ret[r].resp
        /\ calls[r] # <<>>
        /\ calls[r][Len(calls[r])].op = "Quota2"
        /\ calls[r][Len(calls[r])].err # Nil
        /\ loc[r].acq = {"requestBag", "preprocResponseBag", "responseBag"}
        /\ \A b \in loc[r].acq : loc[r].bags[b] = 1

(***************************************************************************)
(* Config store: changes nobody receives                                   *)
(***************************************************************************)
\* the keys whose resource is not the same in old and in new
changedKeys(old, new) ==
    {k \in DOMAIN old \cup DOMAIN new :
        \/ k \notin DOMAIN old
        \/ k \notin DOMAIN new
        \/ old[k] # new[k]}

\* the keys of the events the poll built that no subscriber received
undelivered == changedKeys(pollPrev, pollRead) \ {sent[i].Key : i \in DOMAIN sent}

\* a poll starts: Init's own, or the ticker's
pollStarts == StoreInitCall \/ Tick

\* C26: changes detected while nobody can receive them are lost as events:
\* whether or not a watch is registered and live, a poll (Init's first one
\* included) leaves the snapshot equal to what it read; a poll made while no
\* watch is registered sends nothing, and neither does one that finds the
\* watch cancelled, nor one that finds no change; and every later poll
\* compares with that snapshot, so its events are only for resources that
\* differ between the previous read and its own: a change that was not
\* delivered is not emitted later unless the resource changes again.
C26_UndeliveredChangesAreLost ==
    /\ [](spc # "new" => data = pollRead)
    /\ [](watch = "none" => sent = <<>>)
    /\ [][(pollStarts /\ watch # "live") => (evs' = <<>> /\ spc' = "idle")]_vars
    /\ [][pollStarts =>
             /\ spc # "new" => pollPrev' = pollRead
             /\ \A i \in DOMAIN evs' : evs'[i].Key \in changedKeys(data, pollRead')]_vars
    /\ [](\A i \in DOMAIN sent : sent[i].Key \in changedKeys(pollPrev, pollRead))

\* a poll found changes while no watch was registered: the snapshot holds
\* what it read, no event was sent
C26_Witness ==
    /\ spc = "idle"
    /\ watch = "none"
    /\ changedKeys(pollPrev, pollRead) # {}
    /\ pollPrev # EmptyMap
    /\ data = pollRead
    /\ sent = <<>>

\* the watch was cancelled after the first of two events: the snapshot holds
\* both changes, one was not delivered
C26_PartWayWitness ==
    /\ spc = "idle"
    /\ watch = "cancelled"
    /\ Len(sent) = 1
    /\ Cardinality(undelivered) = 1
    /\ data = pollRead

(***************************************************************************)
(* Config store: the events of one poll                                    *)
(***************************************************************************)
\* the events of the poll: those received, then those still to send
pollEvents == sent \o evs

\* C27: within one poll each key produces at most one event, never both an
\* Update and a Delete; every Update event carries the metadata and the spec
\* of the resource the snapshot now holds under that key; and all Update
\* events of the poll come before any Delete event of that poll.
C27_OneEventPerKeyUpdatesFirst ==
    /\ \A i, j \in DOMAIN pollEvents : pollEvents[i].Key = pollEvents[j].Key => i = j
    /\ \A i \in DOMAIN pollEvents :
          pollEvents[i].Type = "Update" =>
              /\ pollEvents[i].Key \in DOMAIN data
              /\ pollEvents[i].Value # Nil
              /\ Deref(pollEvents[i].Value).Metadata.Name = data[pollEvents[i].Key].Name
              /\ Deref(pollEvents[i].Value).Metadata.Namespace
                    = data[pollEvents[i].Key].Namespace
              /\ Deref(pollEvents[i].Value).Spec = data[pollEvents[i].Key].Spec
    /\ \A i \in DOMAIN pollEvents :
          pollEvents[i].Type = "Delete" =>
              /\ pollEvents[i].Key \notin DOMAIN data
              /\ \A j \in DOMAIN pollEvents : pollEvents[j].Type = "Update" => j < i

\* the subscriber received the Update of one key, the Delete of another key
\* of the same poll is still to send
C27_Witness ==
    /\ spc = "sending"
    /\ Len(sent) = 1 /\ sent[1].Type = "Update"
    /\ Len(evs) = 1 /\ evs[1].Type = "Delete"
    /\ sent[1].Key # evs[1].Key

(***************************************************************************)
(* Config store: the poller and its subscriber                             *)
(***************************************************************************)
\* checkAndUpdate is blocked on the channel send: an event is left, the watch
\* context is not done, and the subscriber is not at the receive
pollerBlocked == spc = "sending" /\ evs # <<>> /\ watch = "live" /\ sub # "recv"

\* the subscriber is blocked on the store's data lock
subscriberBlocked == sub = "lock" /\ spc = "sending"

\* C25: the poller and its subscriber never deadlock: a subscriber that calls
\* Get or List after receiving one event and before receiving the next event
\* of the same poll gets an answer; in no reachable state is checkAndUpdate
\* blocked on the channel send while the subscriber is blocked on the data
\* lock.
C25_NoDeadlock == ~(pollerBlocked /\ subscriberBlocked)

\* what Get answers for key when the source was last read as read
answerOf(read, key) ==
    IF key \in DOMAIN read
    THEN [res |-> Ptr([Metadata |-> [Namespace |-> read[key].Namespace,
                                     Name |-> read[key].Name],
                       Spec |-> read[key].Spec]),
          err |-> Nil]
    ELSE [res |-> Nil, err |-> Ptr("not found")]

newCheckStatus(r) ==
    IF opCalls(r, "Check2") = {} THEN StatusOK
    ELSE LET c == calls[r][CHOOSE i \in opCalls(r, "Check2") : TRUE]
         IN IF c.val # Nil THEN Deref(c.val).Status
            ELSE IF c.err # Nil THEN St(INTERNAL, Deref(c.err))
            ELSE StatusOK

\* the status of the legacy dispatcher's Check in request r
legacyCheckStatus(r) == calls[r][CHOOSE i \in opCalls(r, "Check") : TRUE].out

\* the new dispatcher's Quota returned an error in request r
quotaFailed(r) == \E i \in opCalls(r, "Quota2") : calls[r][i].err # Nil

\* request r passed Preprocess and its handler is past the two Checks
pastChecks(r) ==
    /\ \E i \in opCalls(r, "Preprocess") : IsOK(calls[r][i].out)
    /\ preconditionSet(r)

\* C23 as stated: for every Check that passes Preprocess both the new
\* dispatcher's Check and the legacy dispatcher's Check are invoked; the
\* precondition status of the response is the new dispatcher's status if it
\* is non-OK, otherwise the legacy status; the response is OK iff both are OK.
C23_BothChecksCombined ==
    \A r \in Reqs :
        pastChecks(r) =>
            /\ Cardinality(opCalls(r, "Check2")) = 1
            /\ Cardinality(opCalls(r, "Check")) = 1
            /\ resp[r].Status = (IF ~IsOK(newCheckStatus(r)) THEN newCheckStatus(r)
                                  ELSE legacyCheckStatus(r))
            /\ IsOK(resp[r].Status) <=>
                  (IsOK(newCheckStatus(r)) /\ IsOK(legacyCheckStatus(r)))

\* C23 amended: for every Check that passes Preprocess the legacy
\* dispatcher's Check is invoked once, after the new dispatcher's Check, which
\* is invoked once iff the server has a new dispatcher; the legacy Check is
\* invoked even when the new one failed.  Unless a quota dispatch fails later,
\* the precondition status of the response is the new dispatcher's status if
\* it is non-OK (OK standing for an absent new dispatcher), otherwise the
\* legacy status, so it is OK iff both are OK; a failed quota dispatch
\* replaces it by a non-OK status.
C23_ChecksCombinedBeforeQuotas ==
    \A r \in Reqs :
        pastChecks(r) =>
            /\ Cardinality(opCalls(r, "Check2")) = (IF srv.dispatcher THEN 1 ELSE 0)
            /\ Cardinality(opCalls(r, "Check")) = 1
            /\ \A i \in opCalls(r, "Check2"), j \in opCalls(r, "Check") : i < j
            /\ ~quotaFailed(r) =>
                  /\ resp[r].Status = (IF ~IsOK(newCheckStatus(r)) THEN newCheckStatus(r)
                                        ELSE legacyCheckStatus(r))
                  /\ IsOK(resp[r].Status) <=>
                        (IsOK(newCheckStatus(r)) /\ IsOK(legacyCheckStatus(r)))
            /\ quotaFailed(r) =>
                  /\ IsOK(newCheckStatus(r)) /\ IsOK(legacyCheckStatus(r))
                  /\ ~IsOK(resp[r].Status)

\* a returned Check whose two dispatchers failed with different statuses: the
\* legacy Check was invoked after the failed new one, the response carries
\* the new dispatcher's status
C23_Witness ==
    \E r \in Reqs :
        /\ ret[r].done /\ ret[r].resp
        /\ opCalls(r, "Check2") # {} /\ opCalls(r, "Check") # {}
        /\ ~IsOK(newCheckStatus(r)) /\ ~IsOK(legacyCheckStatus(r))
        /\ newCheckStatus(r) # legacyCheckStatus(r)
        /\ resp[r].Status = newCheckStatus(r)

(***************************************************************************)
(* gRPC server: quota denials                                              *)
(***************************************************************************)
\* C24: a quota denial is a result, never a grant: for every quota of a
\* Check for which the legacy dispatcher's Quota reported a non-OK status,
\* the GrantedAmount of its result is 0; for RESOURCE_EXHAUSTED the result is
\* moreover valid for the default duration.
C24_DenialGrantsNothing ==
    \A r \in Reqs : \A name \in DOMAIN resp[r].Quotas :
        \A i \in callsOf(r, "Quota", name) :
            ~IsOK(calls[r][i].out) =>
                /\ resp[r].Quotas[name].GrantedAmount = 0
                /\ calls[r][i].out.Code = RESOURCE_EXHAUSTED =>
                      resp[r].Quotas[name].ValidDuration = defaultValidDuration

(***************************************************************************)
(* gRPC server: the deduplication id of a quota allocation                 *)
(***************************************************************************)
\* the quota allocations forwarded to a dispatcher: <<request, place in its log>>
allocations == {a \in Reqs \X (1..(2 * Cardinality(QuotaNames))) :
                  a[2] \in DOMAIN calls[a[1]] /\ isQuotaCall(calls[a[1]][a[2]])}

\* the (deduplicationId, quota name) pair of allocation a
pairOf(a) == <<req[a[1]].DeduplicationId, calls[a[1]][a[2]].args.Quota>>

\* C29: the DeduplicationID forwarded to the quota dispatcher identifies the
\* (request deduplicationId, quota name) pair: two quota allocations, in the
\* same or in different requests, whose pairs differ are never forwarded with
\* the same DeduplicationID.
C29_DedupIdentifiesPair ==
    \A a, b \in allocations :
        pairOf(a) # pairOf(b) =>
            calls[a[1]][a[2]].args.DeduplicationID # calls[b[1]][b[2]].args.DeduplicationID

(***************************************************************************)
(* gRPC server: the blocks of a Report batch                               *)
(***************************************************************************)
\* the attributes of the blocks 1..n of a batch, each applied over the ones
\* before it; the first block is the base
RECURSIVE cumulative(_, _)
cumulative(blocks, n) ==
    IF n = 1 THEN blocks[1].delta
    ELSE LET prev == cumulative(blocks, n - 1)
             d == blocks[n].delta
         IN [k \in DOMAIN prev \cup DOMAIN d |-> IF k \in DOMAIN d THEN d[k] ELSE prev[k]]

\* the call c of a dispatcher failed
failedCall(c) == ~IsOK(c.out) \/ c.err # Nil

C30_FailureWitness ==
    \E r \in Reqs :
        /\ ret[r].done /\ ret[r].err # Nil
        /\ Len(loc[r].seen) = 2
        /\ Len(req[r].Attributes) = 2
        /\ IsOK(calls[r][2].out) /\ calls[r][2].op \in {"Report", "Report2"}

(***************************************************************************)
(* Expression evaluator: properties                                        *)
(***************************************************************************)
\* programs of an earlier vocabulary that the cache still holds for the text
staleCached(text) == {p \in il.cache : p.text = text /\ p.id # il.id}

\* C21: after ChangeVocabulary(f) the active finder is f; an evaluation never
\* reuses a program cached under an earlier vocabulary: the program it runs
\* belongs to the live vocabulary and has the type the live finder gives the
\* text; so EvalPredicate of attr on a bag with attr = true succeeds with
\* true once attr is BOOL, whatever was cached before; and a program compiled
\* under an earlier vocabulary is no longer callable: evaluating it fails.
C21_VocabularyChangeInvalidatesPrograms ==
    /\ il.last.op = "ChangeVocabulary" => il.finder = Deref(il.last.finder)
    /\ (il.last.op \in {"Eval", "EvalPredicate"} /\ il.last.program # Nil) =>
          /\ Deref(il.last.program).id = il.id
          /\ Deref(il.last.program).type = il.finder[il.last.text]
    /\ (/\ il.last.op = "EvalPredicate"
        /\ il.last.text = "attr"
        /\ il.finder = configBool
        /\ il.last.bag = Ptr(initBag(Value("BOOL", "true")))) =>
          /\ il.last.err = ""
          /\ il.last.val = "true"
    /\ (il.last.op = "EvalProgram" /\ Deref(il.last.program).id # il.id) =>
          il.last.err # ""

\* attr was INT64 and its program is still cached; after the swap to BOOL,
\* EvalPredicate of attr returned true
C21_Witness ==
    /\ il.last.op = "EvalPredicate"
    /\ il.last.text = "attr"
    /\ il.finder = configBool
    /\ \E p \in staleCached("attr") : p.type = "INT64"
    /\ il.last.err = ""
    /\ il.last.val = "true"

\* the INT64 program of attr was evaluated after the swap to BOOL
C21_StaleWitness ==
    /\ il.last.op = "EvalProgram"
    /\ il.finder = configBool
    /\ Deref(il.last.program) \in staleCached("attr")
    /\ il.last.err = "StaleProgramError"

(***************************************************************************)
(* Template processing: properties                                         *)
(***************************************************************************)
\* the names of the instances whose fields do not all evaluate
unmaterialized == {n \in DOMAIN tmpl.insts : materialize(n, tmpl.insts[n]).err # ""}

\* C22: an instance materialization error does not fail the phase: when a
\* field expression of an instance fails to evaluate, ProcessReport skips
\* that instance, hands the handler the remaining instances, and does not
\* return the evaluation error (it returns what the handler returned).
C22_MaterializationErrorSkipsInstance ==
    (tmpl.ret # Nil /\ unmaterialized # {}) =>
        /\ tmpl.procCallInput # Nil
        /\ {i.Name : i \in Range(Deref(tmpl.procCallInput))}
              = DOMAIN tmpl.insts \ unmaterialized
        /\ tmpl.ret = (IF tmpl.hdlr.retError # Nil THEN tmpl.hdlr.retError ELSE Ptr(""))

====
